---- MODULE Spec2Model ----
(***************************************************************************)
(* The PlayStation CPU core of cmbemu-frontend (ps1-emulator): the MIPS-I  *)
(* interpreter (cpu.rs), its system coprocessor (cop0.rs) and the address  *)
(* decoder (mmu.rs), as a state machine whose actions are Cpu::step and    *)
(* the overlay of Cpu::sideload_exe.                                       *)
(*                                                                         *)
(* A Rust u32 is modelled by the integer with the same 32 bits read as an  *)
(* i32 (two's complement): the model checker's integers are 32 bits wide.  *)
(* So 0xBFC0_0000 is U32(\hBFC0, \h0000) = -1077936128, `x as i32` keeps   *)
(* the value, and every unsigned operation goes through the two 16-bit     *)
(* halves Hi(x), Lo(x).                                                    *)
(***************************************************************************)
EXTENDS Integers, Sequences, FiniteSets, TLC

(***************************************************************************)
(* 32-bit words                                                            *)
(***************************************************************************)
Half == 65536

\* the upper and lower 16 bits of a word, each in 0..65535
Hi(x) == (x \div Half) % Half
Lo(x) == x % Half

\* the word with upper half h and lower half l
U32(h, l) == IF h >= 32768 THEN (h - Half) * Half + l ELSE h * Half + l

Pow2(n) == 2 ^ n

\* u32::wrapping_add, u32::wrapping_sub
wrapping_add(a, b) ==
  LET l == Lo(a) + Lo(b)
      h == Hi(a) + Hi(b) + (l \div Half)
  IN  U32(h % Half, l % Half)

wrapping_sub(a, b) ==
  LET l == Lo(a) - Lo(b)
      h == Hi(a) - Hi(b) + (l \div Half)
  IN  U32(h % Half, l % Half)

\* Option<T>: None is the empty sequence, Some(v) the sequence <<v>>
None == << >>
Some(v) == << v >>

\* i32::checked_add, i32::checked_sub: None when the signed result does not fit
checked_add(a, b) ==
  LET r == wrapping_add(a, b)
  IN  IF (a >= 0 /\ b >= 0 /\ r < 0) \/ (a < 0 /\ b < 0 /\ r >= 0)
      THEN None ELSE Some(r)

checked_sub(a, b) ==
  LET r == wrapping_sub(a, b)
  IN  IF (a >= 0 /\ b < 0 /\ r < 0) \/ (a < 0 /\ b >= 0 /\ r >= 0)
      THEN None ELSE Some(r)

\* the unsigned orders of u32
ULt(a, b) == Hi(a) < Hi(b) \/ (Hi(a) = Hi(b) /\ Lo(a) < Lo(b))
ULe(a, b) == a = b \/ ULt(a, b)

\* bitwise and of two 16-bit halves
RECURSIVE and16(_, _)
and16(a, b) ==
  IF a = 0 \/ b = 0 THEN 0
  ELSE (a % 2) * (b % 2) + 2 * and16(a \div 2, b \div 2)

\* the operators &, |, ^ and ! of u32
BitAnd(a, b) == U32(and16(Hi(a), Hi(b)), and16(Lo(a), Lo(b)))
BitOr(a, b)  == U32(Hi(a) + Hi(b) - and16(Hi(a), Hi(b)),
                    Lo(a) + Lo(b) - and16(Lo(a), Lo(b)))
BitXor(a, b) == U32(Hi(a) + Hi(b) - 2 * and16(Hi(a), Hi(b)),
                    Lo(a) + Lo(b) - 2 * and16(Lo(a), Lo(b)))
BitNot(a)    == U32(Half - 1 - Hi(a), Half - 1 - Lo(a))

\* u32 << n and u32 >> n for n in 0..31, and i32 >> n (arithmetic)
Shl(a, n) ==
  IF n >= 16
  THEN U32((Lo(a) * Pow2(n - 16)) % Half, 0)
  ELSE U32((Hi(a) * Pow2(n) + ((Lo(a) * Pow2(n)) \div Half)) % Half,
           (Lo(a) * Pow2(n)) % Half)

Shr(a, n) ==
  IF n >= 16
  THEN U32(0, Hi(a) \div Pow2(n - 16))
  ELSE U32(Hi(a) \div Pow2(n),
           (Lo(a) \div Pow2(n)) + (Hi(a) % Pow2(n)) * Pow2(16 - n))

Sar(a, n) == IF n = 31 THEN (IF a < 0 THEN -1 ELSE 0) ELSE a \div Pow2(n)

(***************************************************************************)
(* mmu.rs: the memory image and the address decoder                        *)
(***************************************************************************)

\* A byte buffer is held sparsely: `at` maps the offsets whose byte differs
\* from `fill`, every other offset of the buffer holds `fill`.
Buffer(fill, at) == [fill |-> fill, at |-> at]

Store(data, offset, byte) ==
  IF byte = data.fill
  THEN [data EXCEPT !.at = [o \in (DOMAIN @) \ {offset} |-> @[o]]]
  ELSE [data EXCEPT !.at = [o \in (DOMAIN @) \cup {offset} |->
                               IF o = offset THEN byte ELSE @[o]]]

read8(data, offset) ==
  IF offset \in DOMAIN data.at THEN data.at[offset] ELSE data.fill

write8(data, offset, val) == Store(data, offset, val % 256)

read16(data, offset) ==
  read8(data, offset) + 256 * read8(data, offset + 1)

write16(data, offset, val) ==
  Store(Store(data, offset, Lo(val) % 256), offset + 1, Lo(val) \div 256)

read32(data, offset) ==
  U32(read8(data, offset + 2) + 256 * read8(data, offset + 3),
      read8(data, offset) + 256 * read8(data, offset + 1))

\* write32 storing the most significant byte first
write32_be(data, offset, val) ==
  Store(Store(Store(Store(data,
    offset,     Hi(val) \div 256),
    offset + 1, Hi(val) % 256),
    offset + 2, Lo(val) \div 256),
    offset + 3, Lo(val) % 256)

write32(data, offset, val) ==
  Store(Store(Store(Store(data,
    offset,     Lo(val) % 256),
    offset + 1, Lo(val) \div 256),
    offset + 2, Hi(val) % 256),
    offset + 3, Hi(val) \div 256)

\* the accessor the generic Mmu::read / Mmu::write is instantiated with
read_as(SIZE, data, offset) ==
  CASE SIZE = 1 -> read8(data, offset)
    [] SIZE = 2 -> read16(data, offset)
    [] SIZE = 4 -> read32(data, offset)

write_as(SIZE, data, offset, val) ==
  CASE SIZE = 1 -> write8(data, offset, val)
    [] SIZE = 2 -> write16(data, offset, val)
    [] SIZE = 4 -> write32(data, offset, val)

MemRange(start, length) ==
  [start |-> start, length |-> length, end |-> wrapping_add(start, length)]

\* MemRange::contains: Some(addr - start) when start <= addr < end (unsigned)
contains(r, addr) ==
  IF ULe(r.start, addr) /\ ULt(addr, r.end)
  THEN Some(wrapping_sub(addr, r.start)) ELSE None

EXP1       == MemRange(U32(\h1F00, \h0000), 8192 * 1024)
BIOS       == MemRange(U32(\h1FC0, \h0000), 512 * 1024)
SYS_CTRL   == MemRange(U32(\h1F80, \h1000), 36)
RAM_CTRL   == MemRange(U32(\h1F80, \h1060), 4)
IRQ_CTRL   == MemRange(U32(\h1F80, \h1070), 8)
DMA        == MemRange(U32(\h1F80, \h1080), 128)
TIMERS     == MemRange(U32(\h1F80, \h1100), 48)
SPU        == MemRange(U32(\h1F80, \h1C00), 640)
EXP2       == MemRange(U32(\h1F80, \h2000), 66)
EXP3       == MemRange(U32(\h1FA0, \h0000), 2048 * 1024)
RAM        == MemRange(0, 2048 * 1024)
GPU        == MemRange(U32(\h1F80, \h1810), 8)
CACHE_CTRL == MemRange(U32(\hFFFE, \h0130), 4)

REGION_MASK ==
  << U32(\hFFFF, \hFFFF), U32(\hFFFF, \hFFFF), U32(\hFFFF, \hFFFF), U32(\hFFFF, \hFFFF),
     U32(\h7FFF, \hFFFF),
     U32(\h1FFF, \hFFFF),
     U32(\hFFFF, \hFFFF), U32(\hFFFF, \hFFFF) >>

\* Mmu::mask_region with KSEG0 left unmasked
mask_region_unmasked(addr) ==
  LET index == Shr(addr, 29)
  IN  BitAnd(addr, REGION_MASK[IF index = 4 THEN 1 ELSE index + 1])

\* Mmu::mask_region (the table is indexed from 0 in the source)
mask_region(addr) ==
  LET index == Shr(addr, 29)
  IN  BitAnd(addr, REGION_MASK[index + 1])

\* the assertion that opens Mmu::read and Mmu::write
aligned(SIZE, addr) == addr % SIZE = 0

\* Mmu::new: RAM filled with 0xca
Mmu_new == [ram |-> Buffer(\hCA, << >>)]

(***************************************************************************)
(* The state                                                               *)
(***************************************************************************)
VARIABLES
  bios,      \* Bios::data, the image read by Bios::new (never written)
  cpu,       \* the Cpu: its fields, with mmu = [ram] and cop0 = [sr, cause, epc]
  fault,     \* NoFault, or the message of the panic that aborted the host
  hist,      \* one record per completed operation, oldest first (observations)
  sideloads, \* the number of sideload_exe overlays done
  ctx        \* the frontend's EmuContext, and whether main is in its loop

vars == << bios, cpu, fault, hist, sideloads, ctx >>

NoFault == "none"

\* Mmu::read: BIOS and RAM return their bytes, EXP1 0xff, anything else 0
Mmu_read(mmu, SIZE, addr) ==
  LET a == mask_region(addr)
  IN  IF contains(BIOS, a) # None
        THEN read_as(SIZE, bios, contains(BIOS, a)[1])
      ELSE IF contains(RAM, a) # None
        THEN read_as(SIZE, mmu.ram, contains(RAM, a)[1] % (2048 * 1024))
      ELSE IF contains(EXP1, a) # None THEN \hFF
      ELSE IF contains(IRQ_CTRL, a) # None THEN 0
      ELSE IF contains(DMA, a) # None THEN 0
      ELSE IF contains(SPU, a) # None THEN 0
      ELSE IF contains(GPU, a) # None THEN 0
      ELSE 0

\* the branch of Mmu::read a masked address takes, and the offset it binds
read_window(a) ==
  IF contains(BIOS, a) # None THEN << "Bios", contains(BIOS, a)[1] >>
  ELSE IF contains(RAM, a) # None
    THEN << "Ram", contains(RAM, a)[1] % (2048 * 1024) >>
  ELSE IF contains(EXP1, a) # None THEN << "Exp1", contains(EXP1, a)[1] >>
  ELSE IF contains(IRQ_CTRL, a) # None THEN << "IrqCtrl", contains(IRQ_CTRL, a)[1] >>
  ELSE IF contains(DMA, a) # None THEN << "Dma", contains(DMA, a)[1] >>
  ELSE IF contains(SPU, a) # None THEN << "Spu", contains(SPU, a)[1] >>
  ELSE IF contains(GPU, a) # None THEN << "Gpu", contains(GPU, a)[1] >>
  ELSE << "unhandled", a >>

\* the window Mmu::read picks for an address, and the offset into it
read_target(addr) == read_window(mask_region(addr))

\* Mmu::write storing into RAM, at the offset modulo its size, whatever the
\* window
Mmu_write_anywhere(mmu, SIZE, addr, val) ==
  [mmu EXCEPT !.ram = write_as(SIZE, @, BitAnd(mask_region(addr), U32(\h001F, \hFFFF)), val)]

\* Mmu::write: only the RAM window stores; the other windows log and drop
Mmu_write(mmu, SIZE, addr, val) ==
  LET a == mask_region(addr)
  IN  IF contains(RAM, a) # None
        THEN [mmu EXCEPT !.ram =
                write_as(SIZE, @, contains(RAM, a)[1] % (2048 * 1024), val)]
      ELSE IF contains(SYS_CTRL, a) # None THEN mmu
      ELSE IF contains(RAM_CTRL, a) # None THEN mmu
      ELSE IF contains(CACHE_CTRL, a) # None THEN mmu
      ELSE IF contains(SPU, a) # None THEN mmu
      ELSE IF contains(EXP2, a) # None THEN mmu
      ELSE IF contains(IRQ_CTRL, a) # None THEN mmu
      ELSE IF contains(TIMERS, a) # None THEN mmu
      ELSE IF contains(DMA, a) # None THEN mmu
      ELSE IF contains(GPU, a) # None THEN mmu
      ELSE mmu

(***************************************************************************)
(* cop0.rs                                                                 *)
(***************************************************************************)
Interrupt    == 0
IllegalLoad  == 4
IllegalStore == 5
Syscall      == 8
Break        == 9
IllegalInstr == 10
CopError     == 11
Overflow     == 12

\* Cop0::default
Cop0_default == [sr |-> 0, cause |-> 0, epc |-> 0]

\* Cop0::reg with CAUSE and EPC exchanged
Cop0_reg_exchanged(cop0, reg) ==
  CASE reg = 12 -> cop0.sr
    [] reg = 13 -> cop0.epc
    [] reg = 14 -> cop0.cause
    [] OTHER    -> 0

\* Cop0::reg
Cop0_reg(cop0, reg) ==
  CASE reg = 12 -> cop0.sr
    [] reg = 13 -> cop0.cause
    [] reg = 14 -> cop0.epc
    [] OTHER    -> 0

\* Cop0::set_reg: the new Cop0, or None where the source panics
Cop0_set_reg(cop0, reg, val) ==
  CASE reg \in {3, 5, 6, 7, 9, 11} -> IF val # 0 THEN None ELSE Some(cop0)
    [] reg = 12 -> Some([cop0 EXCEPT !.sr = val])
    [] reg = 13 -> Some([cop0 EXCEPT !.cause = val])
    [] reg = 14 -> Some([cop0 EXCEPT !.epc = val])
    [] OTHER    -> None

is_cache_isolated(cop0) == BitAnd(Shr(cop0.sr, 16), 1) = 1

boot_expt_vector(cop0) == BitAnd(Shr(cop0.sr, 22), 1) = 1

(***************************************************************************)
(* cpu.rs: instruction fields                                              *)
(***************************************************************************)
opcode(i)    == BitAnd(Shr(i, 26), 63)
rs(i)        == BitAnd(Shr(i, 21), 31)
rt(i)        == BitAnd(Shr(i, 16), 31)
rd(i)        == BitAnd(Shr(i, 11), 31)
shift(i)     == BitAnd(Shr(i, 6), 31)
funct(i)     == BitAnd(i, 63)
imm16(i)     == BitAnd(i, U32(0, \hFFFF))
\* (imm16 as i16) as u32
imm16sign(i) == IF imm16(i) >= 32768 THEN imm16(i) - Half ELSE imm16(i)
imm26(i)     == BitAnd(i, U32(\h03FF, \hFFFF))
offset16sign(i) == Shl(imm16sign(i), 2)
offset26(i)  == Shl(imm26(i), 2)

(***************************************************************************)
(* cpu.rs: the interpreter.  Every handler maps the machine s (the Cpu's   *)
(* fields, plus fault and the observations bus and raised of the running   *)
(* step) to the machine after it.  A panic sets fault and ends the step.   *)
(***************************************************************************)
Faulted(s) == s.fault # NoFault

panic(s, msg) == [s EXCEPT !.fault = msg]

reg(s, r) == s.regs[r]

rs_val(s) == reg(s, rs(s.i))

rt_val(s) == reg(s, rt(s.i))

\* the branch of Mmu::write a masked address takes, and the offset it binds
write_window(a) ==
  IF contains(RAM, a) # None
    THEN << "Ram", contains(RAM, a)[1] % (2048 * 1024) >>
  ELSE IF contains(SYS_CTRL, a) # None THEN << "MemCtrl1", contains(SYS_CTRL, a)[1] >>
  ELSE IF contains(RAM_CTRL, a) # None THEN << "MemCtrl2", contains(RAM_CTRL, a)[1] >>
  ELSE IF contains(CACHE_CTRL, a) # None THEN << "CacheCtrl", contains(CACHE_CTRL, a)[1] >>
  ELSE IF contains(SPU, a) # None THEN << "Spu", contains(SPU, a)[1] >>
  ELSE IF contains(EXP2, a) # None THEN << "Exp2", contains(EXP2, a)[1] >>
  ELSE IF contains(IRQ_CTRL, a) # None THEN << "IrqCtrl", contains(IRQ_CTRL, a)[1] >>
  ELSE IF contains(TIMERS, a) # None THEN << "Timers", contains(TIMERS, a)[1] >>
  ELSE IF contains(DMA, a) # None THEN << "Dma", contains(DMA, a)[1] >>
  ELSE IF contains(GPU, a) # None THEN << "Gpu", contains(GPU, a)[1] >>
  ELSE << "unhandled", a >>

\* the window Mmu::write picks for an address, and the offset into it
write_target(addr) == write_window(mask_region(addr))

\* set_reg without its second assignment
set_reg_unguarded(s, r, res) == [s EXCEPT !.regs[r] = res]

set_reg(s, r, res) ==
  [s EXCEPT !.regs = [[@ EXCEPT ![r] = res] EXCEPT ![0] = 0]]

\* self.ld_delay_slots.push_back((reg, res))
push_back(s, r, res) ==
  [s EXCEPT !.ld_delay_slots = Append(@, << r, res >>)]

\* a call of self.mmu.read8/16/32: observed, and the Mmu's assertion checked
bus_read(s, SIZE, addr) ==
  [s EXCEPT !.bus = Append(@, << "read", SIZE, addr >>),
            !.fault = IF aligned(SIZE, addr) THEN @ ELSE "unaligned memory read"]

\* a call of self.mmu.write8/16/32
bus_write(s, SIZE, addr, val) ==
  IF aligned(SIZE, addr)
  THEN [s EXCEPT !.bus = Append(@, << "write", SIZE, addr >>),
                 !.mmu = Mmu_write(@, SIZE, addr, val)]
  ELSE [s EXCEPT !.bus = Append(@, << "write", SIZE, addr >>),
                 !.fault = "unaligned memory write"]

\* exception entering through the vector SR bit 22 does not select
exception_other_vector(s, expt) ==
  LET cause1  == BitOr(BitAnd(s.cop0.cause, BitNot(\h7C)), Shl(expt, 2))
      mode    == BitAnd(s.cop0.sr, \h3F)
      sr1     == BitOr(BitAnd(s.cop0.sr, BitNot(\h3F)), BitAnd(Shl(mode, 2), \h3F))
      handler == IF boot_expt_vector([s.cop0 EXCEPT !.sr = sr1])
                 THEN U32(\h8000, \h0080) ELSE U32(\hBFC0, \h0180)
      epc1    == IF s.in_delay_slot THEN wrapping_sub(s.curr_pc, 4) ELSE s.curr_pc
      cause2  == IF s.in_delay_slot THEN BitOr(cause1, Shl(1, 31)) ELSE cause1
  IN  [s EXCEPT !.cop0 = [sr |-> sr1, cause |-> cause2, epc |-> epc1],
                !.pc = handler,
                !.next_pc = wrapping_add(handler, 4),
                !.raised = Append(@, expt)]

\* exception writing the code into CAUSE bits 0..4
exception_code_unshifted(s, expt) ==
  LET cause1  == BitOr(BitAnd(s.cop0.cause, BitNot(\h7C)), expt)
      mode    == BitAnd(s.cop0.sr, \h3F)
      sr1     == BitOr(BitAnd(s.cop0.sr, BitNot(\h3F)), BitAnd(Shl(mode, 2), \h3F))
      handler == IF boot_expt_vector([s.cop0 EXCEPT !.sr = sr1])
                 THEN U32(\hBFC0, \h0180) ELSE U32(\h8000, \h0080)
      epc1    == IF s.in_delay_slot THEN wrapping_sub(s.curr_pc, 4) ELSE s.curr_pc
      cause2  == IF s.in_delay_slot THEN BitOr(cause1, Shl(1, 31)) ELSE cause1
  IN  [s EXCEPT !.cop0 = [sr |-> sr1, cause |-> cause2, epc |-> epc1],
                !.pc = handler,
                !.next_pc = wrapping_add(handler, 4),
                !.raised = Append(@, expt)]

exception(s, expt) ==
  LET cause1  == BitOr(BitAnd(s.cop0.cause, BitNot(\h7C)), Shl(expt, 2))
      mode    == BitAnd(s.cop0.sr, \h3F)
      sr1     == BitOr(BitAnd(s.cop0.sr, BitNot(\h3F)), BitAnd(Shl(mode, 2), \h3F))
      handler == IF boot_expt_vector([s.cop0 EXCEPT !.sr = sr1])
                 THEN U32(\hBFC0, \h0180) ELSE U32(\h8000, \h0080)
      epc1    == IF s.in_delay_slot THEN wrapping_sub(s.curr_pc, 4) ELSE s.curr_pc
      cause2  == IF s.in_delay_slot THEN BitOr(cause1, Shl(1, 31)) ELSE cause1
  IN  [s EXCEPT !.cop0 = [sr |-> sr1, cause |-> cause2, epc |-> epc1],
                !.pc = handler,
                !.next_pc = wrapping_add(handler, 4),
                !.raised = Append(@, expt)]

mtc0(s) ==
  LET res == rt_val(s)
      c   == Cop0_set_reg(s.cop0, rd(s.i), res)
  IN  IF c = None THEN panic(s, "unhandled cop0 register write")
      ELSE [s EXCEPT !.cop0 = c[1]]

mfc0(s) == push_back(s, rt(s.i), Cop0_reg(s.cop0, rd(s.i)))

\* rfe leaving SR as it is
rfe_unshifted(s) ==
  IF funct(s.i) # 16
  THEN panic(s, "unhandled coprocessor 0 rfe instruction")
  ELSE s

rfe(s) ==
  IF funct(s.i) # 16
  THEN panic(s, "unhandled coprocessor 0 rfe instruction")
  ELSE LET mode == BitAnd(s.cop0.sr, \h3F)
       IN  [s EXCEPT !.cop0.sr = BitOr(BitAnd(@, BitNot(\h3F)), Shr(mode, 2))]

lui(s) == set_reg(s, rt(s.i), Shl(imm16(s.i), 16))

\* rs + imm16sign, the effective address of every load and store
ea(s) == wrapping_add(rs_val(s), imm16sign(s.i))

lw(s) ==
  IF is_cache_isolated(s.cop0) THEN s
  ELSE IF ea(s) % 4 = 0
       THEN LET s1 == bus_read(s, 4, ea(s))
            IN  IF Faulted(s1) THEN s1
                ELSE push_back(s1, rt(s.i), Mmu_read(s.mmu, 4, ea(s)))
       ELSE exception(s, IllegalLoad)

\* lh without its alignment test
lh_unchecked(s) ==
  IF is_cache_isolated(s.cop0) THEN s
  ELSE LET s1  == bus_read(s, 2, ea(s))
           v   == Mmu_read(s.mmu, 2, BitAnd(ea(s), BitNot(1)))
           res == IF v >= 32768 THEN v - Half ELSE v
       IN  IF Faulted(s1) THEN s1 ELSE push_back(s1, rt(s.i), res)

lh(s) ==
  IF is_cache_isolated(s.cop0) THEN s
  ELSE IF ea(s) % 2 = 0
       THEN LET s1  == bus_read(s, 2, ea(s))
                v   == Mmu_read(s.mmu, 2, ea(s))
                res == IF v >= 32768 THEN v - Half ELSE v
            IN  IF Faulted(s1) THEN s1 ELSE push_back(s1, rt(s.i), res)
       ELSE exception(s, IllegalLoad)

lhu(s) ==
  IF is_cache_isolated(s.cop0) THEN s
  ELSE IF ea(s) % 2 = 0
       THEN LET s1 == bus_read(s, 2, ea(s))
            IN  IF Faulted(s1) THEN s1
                ELSE push_back(s1, rt(s.i), Mmu_read(s.mmu, 2, ea(s)))
       ELSE exception(s, IllegalLoad)

lb(s) ==
  IF is_cache_isolated(s.cop0) THEN s
  ELSE LET s1  == bus_read(s, 1, ea(s))
           v   == Mmu_read(s.mmu, 1, ea(s))
           res == IF v >= 128 THEN v - 256 ELSE v
       IN  IF Faulted(s1) THEN s1 ELSE push_back(s1, rt(s.i), res)

lbu(s) ==
  IF is_cache_isolated(s.cop0) THEN s
  ELSE LET s1 == bus_read(s, 1, ea(s))
       IN  IF Faulted(s1) THEN s1
           ELSE push_back(s1, rt(s.i), Mmu_read(s.mmu, 1, ea(s)))

\* lwl and lwr merging into zero instead of into rt
pending_rt_unmerged(s) == 0

\* the value of the first queued write-back to rt, else the register
pending_rt(s) ==
  LET q == s.ld_delay_slots
      m == { k \in 1..Len(q) : q[k][1] = rt(s.i) }
  IN  IF m = {} THEN rt_val(s)
      ELSE q[CHOOSE k \in m : \A j \in m : k <= j][2]

lwl(s) ==
  LET addr         == ea(s)
      r            == pending_rt(s)
      aligned_addr == BitAnd(addr, BitNot(3))
      s1           == bus_read(s, 4, aligned_addr)
      aligned_word == Mmu_read(s.mmu, 4, aligned_addr)
      res == CASE BitAnd(addr, 3) = 0 ->
                    BitOr(BitAnd(r, U32(\h00FF, \hFFFF)), Shl(aligned_word, 24))
               [] BitAnd(addr, 3) = 1 ->
                    BitOr(BitAnd(r, U32(\h0000, \hFFFF)), Shl(aligned_word, 16))
               [] BitAnd(addr, 3) = 2 ->
                    BitOr(BitAnd(r, U32(\h0000, \h00FF)), Shl(aligned_word, 8))
               [] BitAnd(addr, 3) = 3 ->
                    BitOr(BitAnd(r, 0), Shl(aligned_word, 0))
  IN  IF Faulted(s1) THEN s1 ELSE push_back(s1, rt(s.i), res)

\* lwr shifting the aligned word right
lwr_shifts_right(s) ==
  LET addr         == ea(s)
      r            == pending_rt(s)
      aligned_addr == BitAnd(addr, BitNot(3))
      s1           == bus_read(s, 4, aligned_addr)
      aligned_word == Mmu_read(s.mmu, 4, aligned_addr)
      res == CASE BitAnd(addr, 3) = 0 ->
                    BitOr(BitAnd(r, 0), Shr(aligned_word, 0))
               [] BitAnd(addr, 3) = 1 ->
                    BitOr(BitAnd(r, U32(\hFF00, \h0000)), Shr(aligned_word, 8))
               [] BitAnd(addr, 3) = 2 ->
                    BitOr(BitAnd(r, U32(\hFFFF, \h0000)), Shr(aligned_word, 16))
               [] BitAnd(addr, 3) = 3 ->
                    BitOr(BitAnd(r, U32(\hFFFF, \hFF00)), Shr(aligned_word, 24))
  IN  IF Faulted(s1) THEN s1 ELSE push_back(s1, rt(s.i), res)

lwr(s) ==
  LET addr         == ea(s)
      r            == pending_rt(s)
      aligned_addr == BitAnd(addr, BitNot(3))
      s1           == bus_read(s, 4, aligned_addr)
      aligned_word == Mmu_read(s.mmu, 4, aligned_addr)
      res == CASE BitAnd(addr, 3) = 0 ->
                    BitOr(BitAnd(r, 0), Shl(aligned_word, 0))
               [] BitAnd(addr, 3) = 1 ->
                    BitOr(BitAnd(r, U32(\hFF00, \h0000)), Shl(aligned_word, 8))
               [] BitAnd(addr, 3) = 2 ->
                    BitOr(BitAnd(r, U32(\hFFFF, \h0000)), Shl(aligned_word, 16))
               [] BitAnd(addr, 3) = 3 ->
                    BitOr(BitAnd(r, U32(\hFFFF, \hFF00)), Shl(aligned_word, 24))
  IN  IF Faulted(s1) THEN s1 ELSE push_back(s1, rt(s.i), res)

sw(s) ==
  IF is_cache_isolated(s.cop0) THEN s
  ELSE IF ea(s) % 4 = 0
       THEN bus_write(s, 4, ea(s), rt_val(s))
       ELSE exception(s, IllegalStore)

sh(s) ==
  IF is_cache_isolated(s.cop0) THEN s
  ELSE IF ea(s) % 2 = 0
       THEN bus_write(s, 2, ea(s), rt_val(s))
       ELSE exception(s, IllegalStore)

sb(s) ==
  IF is_cache_isolated(s.cop0) THEN s
  ELSE bus_write(s, 1, ea(s), rt_val(s))

swl(s) ==
  LET addr         == ea(s)
      r            == rt_val(s)
      aligned_addr == BitAnd(addr, BitNot(3))
      s1           == bus_read(s, 4, aligned_addr)
      aligned_word == Mmu_read(s.mmu, 4, aligned_addr)
      res == CASE BitAnd(addr, 3) = 0 ->
                    BitOr(BitAnd(r, U32(\hFFFF, \hFF00)), Shr(aligned_word, 24))
               [] BitAnd(addr, 3) = 1 ->
                    BitOr(BitAnd(r, U32(\hFFFF, \h0000)), Shr(aligned_word, 16))
               [] BitAnd(addr, 3) = 2 ->
                    BitOr(BitAnd(r, U32(\hFF00, \h0000)), Shr(aligned_word, 8))
               [] BitAnd(addr, 3) = 3 ->
                    BitOr(BitAnd(r, 0), Shr(aligned_word, 0))
  IN  IF Faulted(s1) THEN s1 ELSE bus_write(s1, 4, addr, res)

swr(s) ==
  LET addr         == ea(s)
      r            == rt_val(s)
      aligned_addr == BitAnd(addr, BitNot(3))
      s1           == bus_read(s, 4, aligned_addr)
      aligned_word == Mmu_read(s.mmu, 4, aligned_addr)
      res == CASE BitAnd(addr, 3) = 0 ->
                    BitOr(BitAnd(r, 0), Shl(aligned_word, 0))
               [] BitAnd(addr, 3) = 1 ->
                    BitOr(BitAnd(r, U32(\h0000, \h00FF)), Shl(aligned_word, 8))
               [] BitAnd(addr, 3) = 2 ->
                    BitOr(BitAnd(r, U32(\h0000, \hFFFF)), Shl(aligned_word, 16))
               [] BitAnd(addr, 3) = 3 ->
                    BitOr(BitAnd(r, U32(\h00FF, \hFFFF)), Shl(aligned_word, 24))
  IN  IF Faulted(s1) THEN s1 ELSE bus_write(s1, 4, addr, res)

\* add without the overflow check: addu's body
add_unchecked(s) == set_reg(s, rd(s.i), wrapping_add(rs_val(s), rt_val(s)))

add(s) ==
  LET res == checked_add(rs_val(s), rt_val(s))
  IN  IF res # None THEN set_reg(s, rd(s.i), res[1])
      ELSE exception(s, Overflow)

addi(s) ==
  LET res == checked_add(rs_val(s), imm16sign(s.i))
  IN  IF res # None THEN set_reg(s, rt(s.i), res[1])
      ELSE exception(s, Overflow)

addiu(s) == set_reg(s, rt(s.i), wrapping_add(rs_val(s), imm16sign(s.i)))

addu(s) == set_reg(s, rd(s.i), wrapping_add(rs_val(s), rt_val(s)))

sub(s) ==
  LET res == checked_sub(rs_val(s), rt_val(s))
  IN  IF res # None THEN set_reg(s, rd(s.i), res[1])
      ELSE exception(s, Overflow)

subu(s) == set_reg(s, rd(s.i), wrapping_sub(rs_val(s), rt_val(s)))

\* the 32-bit product of two 16-bit values, as << upper half, lower half >>
Mul16(x, y) ==
  LET p0 == x * (y % 256)
      p1 == x * (y \div 256)
      t0 == p0 + (p1 % 256) * 256
  IN  << (p1 \div 256) + (t0 \div Half), t0 % Half >>

\* rs as u64 * rt as u64, as << (res >> 32) as u32, res as u32 >>
UMul64(a, b) ==
  LET p00 == Mul16(Lo(a), Lo(b))
      p01 == Mul16(Lo(a), Hi(b))
      p10 == Mul16(Hi(a), Lo(b))
      p11 == Mul16(Hi(a), Hi(b))
      c1  == p00[1] + p01[2] + p10[2]
      c2  == p01[1] + p10[1] + p11[2] + (c1 \div Half)
      c3  == p11[1] + (c2 \div Half)
  IN  << U32(c3 % Half, c2 % Half), U32(c1 % Half, p00[2]) >>

\* a as i64 * b as i64: the unsigned product, its upper word corrected for
\* the operands' signs
SMul64(a, b) ==
  LET u  == UMul64(a, b)
      h1 == IF a < 0 THEN wrapping_sub(u[1], b) ELSE u[1]
      h2 == IF b < 0 THEN wrapping_sub(h1, a) ELSE h1
  IN  << h2, u[2] >>

mult(s) ==
  LET res == SMul64(rs_val(s), rt_val(s))
  IN  [s EXCEPT !.lo = res[2], !.hi = res[1]]

multu(s) ==
  LET res == UMul64(rs_val(s), rt_val(s))
  IN  [s EXCEPT !.lo = res[2], !.hi = res[1]]

MinI32 == -2147483647 - 1

\* i32 / and %, for a divisor that is not 0 and not (i32::MIN, -1):
\* << quotient truncated toward zero, remainder with the dividend's sign >>
RECURSIVE SDivRem(_, _)
SDivRem(a, b) ==
  IF b > 0
  THEN IF a >= 0 \/ a % b = 0
       THEN << a \div b, a % b >>
       ELSE << (a \div b) + 1, (a % b) - b >>
  ELSE IF b = MinI32
       THEN (IF a = MinI32 THEN << 1, 0 >> ELSE << 0, a >>)
       ELSE LET p == SDivRem(a, 0 - b) IN << 0 - p[1], p[2] >>

\* u32 / and %, for a divisor that is not 0: << quotient, remainder >>
UDivRem(a, b) ==
  IF b < 0
  THEN (IF ULe(b, a) THEN << 1, wrapping_sub(a, b) >> ELSE << 0, a >>)
  ELSE IF a >= 0 THEN << a \div b, a % b >>
  ELSE IF b = 1 THEN << a, 0 >>
  ELSE \* a = 2^31 + a1 with 0 <= a1 < 2^31, and 2 <= b < 2^31
       LET m  == 2147483647
           qb == IF (m % b) + 1 = b THEN (m \div b) + 1 ELSE m \div b
           rb == IF (m % b) + 1 = b THEN 0 ELSE (m % b) + 1
           a1 == a - MinI32
           q1 == a1 \div b
           r1 == a1 % b
       IN  IF rb >= b - r1
           THEN << qb + q1 + 1, rb - (b - r1) >>
           ELSE << qb + q1, rb + r1 >>

div(s) ==
  LET dividend == rs_val(s)
      divisor  == rt_val(s)
  IN  IF divisor = 0
      THEN [s EXCEPT !.hi = dividend,
                     !.lo = IF dividend > 0 THEN U32(\hFFFF, \hFFFF) ELSE 1]
      ELSE IF dividend = U32(\h8000, \h0000) /\ divisor = -1
      THEN [s EXCEPT !.hi = 0, !.lo = U32(\h8000, \h0000)]
      ELSE [s EXCEPT !.hi = SDivRem(dividend, divisor)[2],
                     !.lo = SDivRem(dividend, divisor)[1]]

divu(s) ==
  LET dividend == rs_val(s)
      divisor  == rt_val(s)
  IN  IF divisor = 0
      THEN [s EXCEPT !.hi = dividend, !.lo = U32(\hFFFF, \hFFFF)]
      ELSE [s EXCEPT !.hi = UDivRem(dividend, divisor)[2],
                     !.lo = UDivRem(dividend, divisor)[1]]

mfhi(s) == set_reg(s, rd(s.i), s.hi)

mflo(s) == set_reg(s, rd(s.i), s.lo)

mthi(s) == [s EXCEPT !.hi = rs_val(s)]

mtlo(s) == [s EXCEPT !.lo = rs_val(s)]

jump(s) ==
  LET res == BitOr(BitAnd(s.pc, U32(\hF000, \h0000)), offset26(s.i))
  IN  [s EXCEPT !.next_pc = res, !.in_delay_slot = TRUE]

\* jal linking to its delay slot
jal_links_slot(s) == jump(set_reg(s, 31, s.pc))

jal(s) == jump(set_reg(s, 31, s.next_pc))

jr(s) == [s EXCEPT !.next_pc = rs_val(s), !.in_delay_slot = TRUE]

jalr(s) ==
  LET s1 == set_reg(s, rd(s.i), s.next_pc)
  IN  [s1 EXCEPT !.next_pc = rs_val(s1), !.in_delay_slot = TRUE]

syscall(s) == exception(s, Syscall)

slt(s) == set_reg(s, rd(s.i), IF rs_val(s) < rt_val(s) THEN 1 ELSE 0)

slti(s) == set_reg(s, rt(s.i), IF rs_val(s) < imm16sign(s.i) THEN 1 ELSE 0)

sltu(s) == set_reg(s, rd(s.i), IF ULt(rs_val(s), rt_val(s)) THEN 1 ELSE 0)

sltiu(s) == set_reg(s, rt(s.i), IF ULt(rs_val(s), imm16sign(s.i)) THEN 1 ELSE 0)

\* branch redirecting pc, the next word to run, instead of next_pc
branch_no_delay(s, cond) ==
  IF cond
  THEN [s EXCEPT !.pc = wrapping_add(wrapping_sub(s.next_pc, 4), offset16sign(s.i)),
                 !.next_pc = wrapping_add(wrapping_sub(s.next_pc, 4),
                                          offset16sign(s.i) + 4),
                 !.in_delay_slot = TRUE]
  ELSE [s EXCEPT !.in_delay_slot = TRUE]

branch(s, cond) ==
  IF cond
  THEN [s EXCEPT !.next_pc = wrapping_add(wrapping_sub(@, 4), offset16sign(s.i)),
                 !.in_delay_slot = TRUE]
  ELSE [s EXCEPT !.in_delay_slot = TRUE]

\* beq never taken
beq_never(s) == branch(s, FALSE)

beq(s) == branch(s, rs_val(s) = rt_val(s))

bgez(s) == branch(s, rs_val(s) >= 0)

bgezal(s) == bgez(set_reg(s, 31, s.next_pc))

bgtz(s) == branch(s, rs_val(s) > 0)

blez(s) == branch(s, rs_val(s) <= 0)

bltz(s) == branch(s, rs_val(s) < 0)

bltzal(s) == bltz(set_reg(s, 31, s.next_pc))

bne(s) == branch(s, rs_val(s) # rt_val(s))

\* bxxx linking for rt = 16 and rt = 17 only
bxxx_two_links(s) ==
  LET kind    == rt(s.i)
      is_bgez == BitAnd(kind, 1) # 0
      is_link == kind \in {16, 17}
  IN  CASE is_bgez /\ is_link     -> bgezal(s)
        [] is_bgez /\ ~is_link    -> bgez(s)
        [] ~is_bgez /\ is_link    -> bltzal(s)
        [] ~is_bgez /\ ~is_link   -> bltz(s)

\* the source writes the link mask as the decimal literal 1_0000
bxxx(s) ==
  LET kind    == rt(s.i)
      is_bgez == BitAnd(kind, 1) # 0
      is_link == BitAnd(kind, 10000) # 0
  IN  CASE is_bgez /\ is_link     -> bgezal(s)
        [] is_bgez /\ ~is_link    -> bgez(s)
        [] ~is_bgez /\ is_link    -> bltzal(s)
        [] ~is_bgez /\ ~is_link   -> bltz(s)

brk(s) == exception(s, Break)

and(s) == set_reg(s, rd(s.i), BitAnd(rs_val(s), rt_val(s)))

andi(s) == set_reg(s, rt(s.i), BitAnd(rs_val(s), imm16(s.i)))

or(s) == set_reg(s, rd(s.i), BitOr(rs_val(s), rt_val(s)))

ori(s) == set_reg(s, rt(s.i), BitOr(rs_val(s), imm16(s.i)))

nor(s) == set_reg(s, rd(s.i), BitNot(BitOr(rs_val(s), rt_val(s))))

xor(s) == set_reg(s, rd(s.i), BitXor(rs_val(s), rt_val(s)))

xori(s) == set_reg(s, rt(s.i), BitXor(rs_val(s), imm16(s.i)))

sll(s) == set_reg(s, rd(s.i), Shl(rt_val(s), shift(s.i)))

srl(s) == set_reg(s, rd(s.i), Shr(rt_val(s), shift(s.i)))

sra(s) == set_reg(s, rd(s.i), Sar(rt_val(s), shift(s.i)))

sllv(s) == set_reg(s, rd(s.i), Shl(rt_val(s), BitAnd(rs_val(s), \h1F)))

srav(s) == set_reg(s, rd(s.i), Sar(rt_val(s), BitAnd(rs_val(s), \h1F)))

srlv(s) == set_reg(s, rd(s.i), Shr(rt_val(s), BitAnd(rs_val(s), \h1F)))

decode(s) ==
  LET op == opcode(s.i)
      fn == funct(s.i)
  IN  CASE op = 0 ->
             ( CASE fn = 0  -> sll(s)
                 [] fn = 2  -> srl(s)
                 [] fn = 3  -> sra(s)
                 [] fn = 4  -> sllv(s)
                 [] fn = 8  -> jr(s)
                 [] fn = 9  -> jalr(s)
                 [] fn = 12 -> syscall(s)
                 [] fn = 13 -> brk(s)
                 [] fn = 24 -> mult(s)
                 [] fn = 25 -> multu(s)
                 [] fn = 26 -> div(s)
                 [] fn = 27 -> divu(s)
                 [] fn = 16 -> mfhi(s)
                 [] fn = 17 -> mthi(s)
                 [] fn = 18 -> mflo(s)
                 [] fn = 19 -> mtlo(s)
                 [] fn = 32 -> add(s)
                 [] fn = 33 -> addu(s)
                 [] fn = 34 -> sub(s)
                 [] fn = 35 -> subu(s)
                 [] fn = 36 -> and(s)
                 [] fn = 37 -> or(s)
                 [] fn = 42 -> slt(s)
                 [] fn = 43 -> sltu(s)
                 [] fn = 39 -> nor(s)
                 [] fn = 38 -> xor(s)
                 [] fn = 7  -> srav(s)
                 [] fn = 6  -> srlv(s)
                 [] OTHER   -> exception(s, IllegalInstr) )
        [] op = 16 ->
             ( CASE rs(s.i) = 0  -> mfc0(s)
                 [] rs(s.i) = 4  -> mtc0(s)
                 [] rs(s.i) = 16 -> rfe(s)
                 [] OTHER        -> panic(s, "unhandled coprocessor0 instr") )
        [] op = 17 -> exception(s, CopError)
        [] op = 18 -> panic(s, "unhandled coprocessor 2")
        [] op = 19 -> exception(s, CopError)
        [] op = 48 -> exception(s, CopError)
        [] op = 49 -> exception(s, CopError)
        [] op = 50 -> panic(s, "unhandled coprocessor 2 load")
        [] op = 51 -> exception(s, CopError)
        [] op = 56 -> exception(s, CopError)
        [] op = 57 -> exception(s, CopError)
        [] op = 58 -> panic(s, "unhandled coprocessor 2 store")
        [] op = 59 -> exception(s, CopError)
        [] op = 1  -> bxxx(s)
        [] op = 2  -> jump(s)
        [] op = 3  -> jal(s)
        [] op = 4  -> beq(s)
        [] op = 5  -> bne(s)
        [] op = 6  -> blez(s)
        [] op = 7  -> bgtz(s)
        [] op = 8  -> addi(s)
        [] op = 9  -> addiu(s)
        [] op = 10 -> slti(s)
        [] op = 11 -> sltiu(s)
        [] op = 12 -> andi(s)
        [] op = 13 -> ori(s)
        [] op = 14 -> xori(s)
        [] op = 15 -> lui(s)
        [] op = 32 -> lb(s)
        [] op = 33 -> lh(s)
        [] op = 37 -> lhu(s)
        [] op = 36 -> lbu(s)
        [] op = 35 -> lw(s)
        [] op = 40 -> sb(s)
        [] op = 41 -> sh(s)
        [] op = 43 -> sw(s)
        [] op = 34 -> lwl(s)
        [] op = 38 -> lwr(s)
        [] op = 42 -> swl(s)
        [] op = 46 -> swr(s)
        [] OTHER   -> exception(s, IllegalInstr)

\* the commit leaving the write-back in the queue
commit_keeps(s) ==
  IF s.ld_delay_slots = << >> THEN s
  ELSE set_reg(s, Head(s.ld_delay_slots)[1], Head(s.ld_delay_slots)[2])

\* step(), first part: the oldest queued write-back is popped and committed
commit(s) ==
  IF s.ld_delay_slots = << >> THEN s
  ELSE set_reg([s EXCEPT !.ld_delay_slots = Tail(@)],
               Head(s.ld_delay_slots)[1], Head(s.ld_delay_slots)[2])

\* advance moving next_pc on from pc, not from next_pc
advance_from_pc(s) ==
  [s EXCEPT !.curr_pc = s.pc,
            !.pc      = s.next_pc,
            !.next_pc = wrapping_add(s.pc, 8)]

\* step(), second part: curr_pc <- pc, pc <- next_pc, next_pc <- next_pc + 4
advance(s) ==
  [s EXCEPT !.curr_pc = s.pc,
            !.pc      = s.next_pc,
            !.next_pc = wrapping_add(s.next_pc, 4)]

\* step(), third part: the instruction word is read from curr_pc
fetch(s) ==
  [bus_read(s, 4, s.curr_pc) EXCEPT !.i = Mmu_read(s.mmu, 4, s.curr_pc)]

\* step(), last part: a step that ran a delay slot clears in_delay_slot
retire(s, was_delay_slot) ==
  IF Faulted(s) THEN s
  ELSE IF was_delay_slot THEN [s EXCEPT !.in_delay_slot = FALSE]
  ELSE s

\* step(), from the fetch on: was_delay_slot is read before decode runs
execute(s) == retire(decode(s), s.in_delay_slot)

\* step(), the alignment check of curr_pc: a misaligned one ends the step
issue(s) ==
  IF s.curr_pc % 4 # 0 THEN exception(s, IllegalLoad)
  ELSE execute(fetch(s))

\* Cpu::step (tty_output only prints, and is left out)
step(s) == issue(advance(commit(s)))

\* Cpu::new
Cpu_new(mmu) ==
  [ regs           |-> [r \in 0..31 |-> IF r = 0 THEN 0 ELSE U32(\hDEAD, \hBEEF)],
    hi             |-> 0,
    lo             |-> 0,
    pc             |-> BIOS.start,
    i              |-> 0,
    curr_pc        |-> BIOS.start,
    next_pc        |-> wrapping_add(BIOS.start, 4),
    ld_delay_slots |-> << >>,
    in_delay_slot  |-> FALSE,
    mmu            |-> mmu,
    cop0           |-> Cop0_default ]

\* the machine a step or an overlay starts from, and the Cpu it leaves
Machine(c) ==
  [ regs |-> c.regs, hi |-> c.hi, lo |-> c.lo, pc |-> c.pc, i |-> c.i,
    curr_pc |-> c.curr_pc, next_pc |-> c.next_pc,
    ld_delay_slots |-> c.ld_delay_slots, in_delay_slot |-> c.in_delay_slot,
    mmu |-> c.mmu, cop0 |-> c.cop0,
    fault |-> NoFault, bus |-> << >>, raised |-> << >> ]

CpuOf(s) ==
  [ regs |-> s.regs, hi |-> s.hi, lo |-> s.lo, pc |-> s.pc, i |-> s.i,
    curr_pc |-> s.curr_pc, next_pc |-> s.next_pc,
    ld_delay_slots |-> s.ld_delay_slots, in_delay_slot |-> s.in_delay_slot,
    mmu |-> s.mmu, cop0 |-> s.cop0 ]

(***************************************************************************)
(* Cpu::sideload_exe.  Its loop calls step() until pc = 0x8003_0000: those *)
(* calls are Step actions, and the rest of the function is the overlay.    *)
(* An exe is [len, data]: the file's length and its bytes.                 *)
(***************************************************************************)
RECURSIVE copy_from_slice(_, _, _, _, _)
copy_from_slice(ram, dst, exe, src, n) ==
  IF n = 0 THEN ram
  ELSE copy_from_slice(Store(ram, dst, read8(exe, src)), dst + 1, exe, src + 1, n - 1)

overlay(s, exe) ==
  LET initial_pc   == read32(exe.data, 16)
      initial_r28  == read32(exe.data, 20)
      exe_ram_addr == BitAnd(read32(exe.data, 24), U32(\h001F, \hFFFF))
      exe_size     == read32(exe.data, 28)
      initial_sp   == read32(exe.data, 48)
  IN  IF \/ ULt(2048 * 1024 - exe_ram_addr, exe_size)
         \/ ULt(exe.len - 2048, exe_size)
      THEN panic(s, "range end index out of range for slice")
      ELSE LET s1 == [s EXCEPT !.mmu.ram =
                        copy_from_slice(@, exe_ram_addr, exe.data, 2048, exe_size)]
               s2 == set_reg(s1, 28, initial_r28)
               s3 == IF initial_sp # 0
                     THEN set_reg(set_reg(s2, 29, initial_sp), 30, initial_sp)
                     ELSE s2
           IN  [s3 EXCEPT !.pc = initial_pc,
                          !.next_pc = wrapping_add(initial_pc, 4)]

(***************************************************************************)
(* Inputs: instruction words, BIOS images and executables                  *)
(***************************************************************************)
\* the three MIPS-I formats, the inverse of the field accessors
IType(op, s, t, imm) == U32(op * 1024 + s * 32 + t, imm)
RType(s, t, d, sa, fn) == U32(s * 32 + t, d * 2048 + sa * 64 + fn)
JType(op, target) == U32(op * 1024 + (target \div Half), target % Half)

NOP       == RType(0, 0, 0, 0, 0)
SYSCALL   == RType(0, 0, 0, 0, 12)
BREAK     == RType(0, 0, 0, 0, 13)
LUI(t, imm)       == IType(15, 0, t, imm)
ORI(t, s, imm)    == IType(13, s, t, imm)
ADDIU(t, s, imm)  == IType(9, s, t, imm)
ADDI(t, s, imm)   == IType(8, s, t, imm)
ADD(d, s, t)      == RType(s, t, d, 0, 32)
SUB(d, s, t)      == RType(s, t, d, 0, 34)
LW(t, imm, s)     == IType(35, s, t, imm)
SW(t, imm, s)     == IType(43, s, t, imm)
JR(s)             == RType(s, 0, 0, 0, 8)
JALR(d, s)        == RType(s, 0, d, 0, 9)
BEQ(s, t, off)    == IType(4, s, t, off)
BNE(s, t, off)    == IType(5, s, t, off)
COP0(k, t, d, fn) == U32(16 * 1024 + k * 32 + t, d * 2048 + fn)
MFC0(t, d)        == COP0(0, t, d, 0)
MTC0(t, d)        == COP0(4, t, d, 0)
RFE               == COP0(16, 0, 0, 16)
\* J and JAL to the BIOS offset off, from a pc in 0x1000_0000..0x1FFF_FFFF
JTO(off)          == JType(2, (\h0FC0 * Half + off) \div 4)
JALTO(off)        == JType(3, (\h0FC0 * Half + off) \div 4)

\* the word fixed at BIOS offset 0x40 in every image: where JTO(64) lands
LandingPad == 4 * 16

\* a BIOS image: `prog` from offset 0, SYSCALL at the landing pad, zeros elsewhere
RECURSIVE Place(_, _, _)
Place(data, offset, words) ==
  IF words = << >> THEN data
  ELSE Place(write32(data, offset, Head(words)), offset + 4, Tail(words))

Image(prog) == Place(Place(Buffer(0, << >>), LandingPad, << SYSCALL >>), 0, prog)

\* Registers as the images use them: r1 is set up by the image's first words,
\* r2 keeps its reset value, r3 and r6 are written, r5 is loaded.

\* one word and more of every handler decode can reach
AluWords ==
  { NOP, ORI(3, 0, \hAA), ORI(0, 0, \hAA), ADDIU(6, 5, 0), ADDIU(3, 1, \hFFFF),
    ADDI(3, 1, \hFFFF), ADDI(0, 2, 1), LUI(3, \h1234),
    IType(12, 2, 3, \hFF0F), IType(14, 2, 3, \hFF0F),
    IType(10, 2, 3, 0), IType(11, 2, 3, \hFFFF),
    ADD(3, 1, 1), ADD(0, 2, 2), ADD(3, 1, 2),
    SUB(3, 0, 1), SUB(3, 1, 2), SUB(0, 0, 2),
    RType(2, 2, 3, 0, 33), RType(0, 2, 3, 0, 35), RType(2, 2, 3, 0, 36),
    RType(2, 0, 3, 0, 37), RType(2, 2, 3, 0, 38), RType(2, 0, 3, 0, 39),
    RType(2, 0, 3, 0, 42), RType(0, 2, 3, 0, 43),
    RType(0, 2, 3, 4, 0), RType(0, 2, 3, 4, 2), RType(0, 2, 3, 4, 3),
    RType(2, 2, 3, 0, 4), RType(2, 2, 3, 0, 6), RType(2, 2, 3, 0, 7),
    RType(2, 2, 0, 0, 24), RType(2, 2, 0, 0, 25),
    RType(2, 0, 0, 0, 26), RType(0, 0, 0, 0, 26), RType(2, 2, 0, 0, 26),
    RType(2, 0, 0, 0, 27), RType(2, 2, 0, 0, 27),
    RType(0, 0, 3, 0, 16), RType(0, 0, 3, 0, 18),
    RType(2, 0, 0, 0, 17), RType(2, 0, 0, 0, 19) }

LoadWords ==
  { LW(5, 0, 0), LW(0, 0, 0), LW(5, 1, 0), LW(5, 0, 2),
    IType(33, 0, 5, 0), IType(33, 0, 5, 1), IType(37, 0, 5, 0), IType(37, 0, 5, 1),
    IType(32, 0, 5, 1), IType(36, 0, 5, 1),
    IType(34, 0, 5, 3), IType(34, 0, 5, 1), IType(38, 0, 5, 0), IType(38, 0, 5, 2),
    MFC0(5, 12), MFC0(5, 13), MFC0(0, 14) }

StoreWords ==
  { SW(2, 0, 0), SW(2, 2, 0), IType(41, 0, 2, 0), IType(41, 0, 2, 1),
    IType(40, 0, 2, 1),
    IType(42, 0, 2, 0), IType(42, 0, 2, 1), IType(42, 0, 2, 3),
    IType(46, 0, 2, 0), IType(46, 0, 2, 2) }

BranchWords ==
  { JTO(LandingPad), JALTO(LandingPad), JR(2), JALR(3, 2), JALR(0, 2),
    BEQ(0, 0, 2), BNE(0, 0, 2), BNE(2, 0, 2),
    IType(6, 2, 0, 2), IType(7, 2, 0, 2),
    IType(1, 2, 0, 2), IType(1, 2, 1, 2), IType(1, 2, 16, 2), IType(1, 0, 17, 2),
    IType(1, 2, 17, 2), IType(1, 2, 14, 2) }

SystemWords ==
  { SYSCALL, BREAK, RType(0, 0, 0, 0, 1), IType(63, 0, 0, 0),
    IType(17, 0, 0, 0), IType(19, 0, 0, 0), IType(49, 0, 0, 0), IType(51, 0, 0, 0),
    IType(57, 0, 0, 0), IType(59, 0, 0, 0),
    IType(18, 0, 0, 0), IType(50, 0, 0, 0), IType(58, 0, 0, 0),
    MTC0(1, 12), MTC0(2, 13), MTC0(2, 14), MTC0(0, 3), MTC0(2, 3), MTC0(0, 0),
    COP0(8, 0, 0, 0), RFE, COP0(16, 0, 0, 0) }

AllWords == AluWords \cup LoadWords \cup StoreWords \cup BranchWords \cup SystemWords

\* the words tried after each of the above
NextWords ==
  { NOP, ADDIU(6, 5, 0), ORI(3, 0, \hAA), SYSCALL, LW(5, 1, 0), ADD(3, 1, 1),
    BEQ(0, 0, 2), BNE(0, 0, 2), JTO(LandingPad), JR(2), SW(2, 0, 0),
    IType(38, 0, 5, 0), IType(42, 0, 2, 1), MFC0(6, 13) }

\* the words that raise an exception, branch, load or store
EventWords ==
  { SYSCALL, BREAK, IType(63, 0, 0, 0), IType(17, 0, 0, 0), ADD(3, 1, 1),
    ADDI(3, 1, \hFFFF), SUB(3, 0, 1), ADD(3, 2, 2), LW(5, 1, 0), SW(2, 2, 0),
    LW(5, 0, 0), SW(2, 0, 0), IType(40, 0, 2, 1), IType(41, 0, 2, 0),
    IType(34, 0, 5, 3), IType(38, 0, 5, 0), IType(42, 0, 2, 0), IType(46, 0, 2, 0),
    IType(32, 0, 5, 1), IType(33, 0, 5, 0), IType(36, 0, 5, 1), IType(37, 0, 5, 0),
    JTO(LandingPad), JR(2), BEQ(0, 0, 2), BNE(0, 0, 2), RFE, NOP }

AfterWords == { NOP, SYSCALL, ADD(3, 1, 1), BEQ(0, 0, 2), ADDIU(6, 5, 0) }

\* the last BIOS words before the hand-off at 0x8003_0000
HandoffWords == { NOP, LW(28, 0, 0), LW(0, 0, 0), ORI(29, 0, \h55) }

\* from reset; with r1 = 0x8000_0000; with SR = 0x0040_0000 (boot vectors);
\* with SR = 0xDEAD_BEEF (cache isolated, mode bits 0x2F); a jump to the
\* hand-off address; and a branch stored at 0x8002_FFFC and run into it
Programs ==
  { << x, y >> : x \in AllWords, y \in NextWords }
  \cup { << LUI(1, \h8000), x, y >> : x \in EventWords, y \in AfterWords }
  \cup { << LUI(1, \h0040), MTC0(1, 12), x, y >> : x \in EventWords, y \in AfterWords }
  \cup { << MTC0(2, 12), x, y >> : x \in EventWords, y \in AfterWords }
  \cup { << LUI(1, \h8003), JR(1), x >> : x \in HandoffWords }
  \cup { << LUI(2, \h1000), LUI(1, \h8003), SW(2, \hFFFC, 1), ADDIU(1, 1, \hFFFC),
            JR(1), NOP >> }

\* a BIOS image with `handler` at the boot exception vector 0xBFC0_0180
WithHandler(prog, handler) ==
  Place(Image(prog), contains(BIOS, mask_region(U32(\hBFC0, \h0180)))[1], handler)

\* SR values with bit 22 set: every value of the mode bits 0..5, with bits
\* 6..15 clear and set, and bit 16 clear and set
StatusWords ==
  { << LUI(1, hi), ORI(1, 1, lo), MTC0(1, 12) >> :
      hi \in { \h0040, \hFFC1 }, lo \in (0..63) \cup { \hFFC0 + m : m \in {0, 21, 42, 63} } }

\* what enters the handler (or is an RFE with no exception before it)
EntryWords == { SYSCALL, IType(33, 0, 5, 1), RFE }

Handlers == { << RFE >>, << NOP, RFE >>, << SW(2, 2, 0), RFE >> }

\* a load, then LWL or LWR to the same target; and the pair LWL a+3, LWR a
\* (r1 is the BIOS base, so the words loaded are the image's own)
MergePrograms ==
  { << LUI(1, \h1FC0), x, IType(op, 1, 5, k) >> :
      x \in { LW(5, 0, 1), IType(32, 1, 5, 1), MFC0(5, 12) }, op \in {34, 38}, k \in 0..3 }
  \cup { << LUI(1, \h1FC0), LW(0, 0, 1), IType(op, 1, 0, 1) >> : op \in {34, 38} }
  \cup { << LUI(1, \h1FC0), x, IType(34, 1, t, 7), IType(38, 1, t, 4) >> :
           x \in { NOP, ORI(5, 0, \hAA), LW(5, 0, 1) }, t \in {0, 5} }
  \cup { << LUI(1, \h1FC0), LW(5, 0, 1), IType(38, 1, 5, 1),
            IType(34, 1, 5, 7), IType(38, 1, 5, 4) >> }

\* DIV and DIVU of r1 by r2, each 0, small of either sign, or 0x8000_0000
DivPrograms ==
  { << a, b, RType(1, 2, 0, 0, fn) >> :
      a \in { ORI(1, 0, 0), ORI(1, 0, 7), ADDIU(1, 0, \hFFF9), ADDIU(1, 0, \hFFFF),
               LUI(1, \h8000), ORI(1, 0, 1) },
      b \in { ORI(2, 0, 0), ORI(2, 0, 2), ADDIU(2, 0, \hFFFE), ADDIU(2, 0, \hFFFF),
               LUI(2, \h8000), ORI(2, 0, 7) },
      fn \in {26, 27} }

\* a taken BEQ, the word in its delay slot and the word it skips; from
\* reset, further on, and with a load to r1 or a branch before it
ScenarioPrograms ==
  { p \o << BEQ(0, 0, 2), ORI(1, 0, \hAA), ORI(1, 0, \hBB) >> :
      p \in { << >>, << NOP >>, << LW(1, 0, 0) >>, << BNE(0, 0, 2) >>,
              << ORI(3, 0, \hAA), NOP >> } }

\* J and JAL run from KSEG1: JR to 0xBFC0_0014, where the jump word sits
JumpPrograms ==
  { << LUI(1, \hBFC0), ORI(1, 1, \h14), JR(1), NOP, NOP, j, x >> :
      j \in { JTO(LandingPad), JALTO(LandingPad), JALR(3, 1), JALR(0, 1) },
      x \in { ORI(3, 0, \hAA), ADDIU(6, 31, 0), BREAK } }

\* conditional branches at 0x1FC0_0008 with backward, zero and forward
\* offsets, taken and not, the link variants testing r31 among them; and a
\* taken branch in the delay slot of one not taken, SYSCALL in its own
OffsetPrograms ==
  { << ORI(1, 0, 1), NOP, b, x >> :
      b \in { BEQ(0, 0, \hFFFE), BEQ(0, 0, \hFFFF), BEQ(0, 0, 0), BEQ(1, 0, \hFFFE),
              BNE(1, 0, 3), BNE(0, 0, \hFFFD), IType(6, 1, 0, \hFFFE),
              IType(7, 1, 0, \hFFFE), IType(1, 1, 0, 3), IType(1, 1, 1, \hFFFE),
              IType(1, 31, 17, 3), IType(1, 31, 16, 3), IType(1, 31, 1, 3) },
      x \in { NOP, ORI(3, 0, \hAA), BREAK, LW(5, 1, 0) } }
  \cup { << BNE(0, 0, 2), BEQ(0, 0, 2), SYSCALL >> }

\* every REGIMM word: each rt, with rs zero, positive, negative and r31
RegimmPrograms ==
  { << ORI(1, 0, 1), IType(1, s, k, 3), ADDIU(6, 31, 0) >> : s \in {0, 1, 2, 31}, k \in 0..31 }

\* MTC0 of r1 (zero, small, large) to SR, CAUSE or EPC and MFC0 of any index
\* into r5 or r0; and MTC0 of r1 to every index
Cop0Programs ==
  { << a, MTC0(1, d), MFC0(t, e), NOP >> :
      a \in { ORI(1, 0, 0), ORI(1, 0, \h55), LUI(1, \hFFFF) },
      d \in {12, 13, 14}, e \in 0..31, t \in {0, 5} }
  \cup { << a, MTC0(1, d) >> :
           a \in { ORI(1, 0, 0), ORI(1, 0, \h55), LUI(1, \hFFFF) }, d \in 0..31 }

\* a value stored through one segment's alias of an address and loaded
\* through another's, in each width, for RAM (start and last word), the
\* first unmapped word, EXP1, the hardware registers and the BIOS
MirrorPrograms ==
  { << LUI(1, base + segS), LUI(2, base + segL), LUI(3, \h89AB), ORI(3, 3, \hCDEF),
       IType(st, 1, 3, off), IType(ld, 2, 5, off), NOP >> :
      base \in { \h0000, \h0020, \h1F00, \h1F80, \h1FC0 },
      segS \in { \h0000, \h8000, \hA000 }, segL \in { \h0000, \h8000, \hA000 },
      st \in {40, 41, 43}, ld \in {36, 37, 35}, off \in { \h1070 } }
  \cup { << LUI(1, \h0020 + segS), LUI(2, \h0020 + segL), LUI(3, \h89AB), ORI(3, 3, \hCDEF),
            IType(st, 1, 3, \hFFFC), IType(35, 2, 5, \hFFFC), NOP >> :
           segS \in { \h0000, \h8000, \hA000 }, segL \in { \h0000, \h8000, \hA000 },
           st \in {40, 41, 43} }

\* a word of every primary opcode and a SPECIAL word of every funct, run
\* while a load into r5 is pending
DispatchPrograms ==
  { << ORI(1, 0, \h55), LW(5, 0, 0), IType(op, 1, 3, 4), NOP >> : op \in 0..63 }
  \cup { << ORI(1, 0, \h55), LW(5, 0, 0), RType(1, 2, 3, 0, fn), NOP >> : fn \in 0..63 }

\* the boot vector selected, an exception raised in or out of a delay slot,
\* and a handler that raises (or not) with its first word
NestedImages ==
  { WithHandler(<< LUI(1, \h0040), MTC0(1, 12), b, x >>, << y, NOP >>) :
      b \in { BEQ(0, 0, 2), BNE(0, 0, 2), NOP },
      x \in { SYSCALL, IType(35, 0, 5, 1) },
      y \in { SYSCALL, BREAK, IType(43, 0, 5, 2), NOP } }

\* eight distinct bytes put at RAM 0..7, then LWL t,a+3; LWR t,a for each
\* alignment of a, into r5 (never written before) and r3 (just written)
UnalignedPrograms ==
  { << LUI(3, \h89AB), ORI(3, 3, \hCDEF), SW(3, 0, 0),
       LUI(3, \h0123), ORI(3, 3, \h4567), SW(3, 4, 0),
       IType(34, 0, t, a + 3), IType(38, 0, t, a), NOP >> :
      t \in {3, 5}, a \in 0..4 }

\* JALR at 0x1FC0_0008 through r1 = 0x1FC0_0040, rd being rs, r31, r2 or
\* r0, the delay slot reading the link register
JalrPrograms ==
  { << LUI(1, \h1FC0), ORI(1, 1, LandingPad), JALR(d, 1), ADDIU(6, d, 0), NOP >> :
      d \in {0, 1, 2, 31} }

Images ==
  { Image(p) : p \in Programs \cup MergePrograms \cup DivPrograms
                     \cup ScenarioPrograms \cup JumpPrograms \cup OffsetPrograms
                     \cup RegimmPrograms
                     \cup Cop0Programs
                     \cup MirrorPrograms
                     \cup DispatchPrograms
                     \cup UnalignedPrograms
                     \cup JalrPrograms }
  \cup { WithHandler(p \o << x >>, h) : p \in StatusWords, x \in EntryWords, h \in Handlers }
  \cup NestedImages

\* an executable: a 2048-byte header (initial pc at 0x10, r28 at 0x14, load
\* address at 0x18, payload size at 0x1c, sp at 0x30), then the payload
Exe(initial_pc, r28, load, sp, payload) ==
  [ len  |-> 2048 + 4 * Len(payload),
    data |-> Place(
               write32(write32(write32(write32(write32(Buffer(0, << >>),
                 16, initial_pc), 20, r28), 24, load), 28, 4 * Len(payload)), 48, sp),
               2048, payload) ]

Exes ==
  { Exe(U32(\h8001, \h0000), \h1111, U32(\h8001, \h0000), U32(\h801F, \hFF00),
        << ORI(3, 0, \hAA), SYSCALL >>),
    Exe(U32(\h8001, \h0002), \h2222, U32(\h8001, \h0000), 0, << NOP >>),
    Exe(U32(\h8003, \h0000), \h3333, U32(\h8003, \h0000), 0, << NOP, NOP >>) }

(***************************************************************************)
(* The multi-console frontend (src/src): EmuContext, the key handler and   *)
(* the main loop.  It is a binary of its own and does not link the PS1     *)
(* core: under Spec ctx stays as EmuContext::new leaves it, and under      *)
(* Frontend the Cpu stays at reset.                                        *)
(***************************************************************************)
MaxQueued == 3
MaxFrames == 4

\* the bytes of one queued batch: 44100 Hz / 60 fps mono f32 samples
BatchBytes == 735 * 4

\* EmuInterface::audio_spec().0: true for the Nes, false for the Gameboy
audio_spec(emu) == emu.console = "Nes"

\* sdl2 AudioSubsystem::open_queue: the device opens paused, nothing queued
open_queue == [status |-> "Paused", size |-> 0]

\* sdl2 AudioQueue::pause, resume, clear, queue_audio (one batch), size
AudioQueue_pause(dev) == [dev EXCEPT !.status = "Paused"]

AudioQueue_resume(dev) == [dev EXCEPT !.status = "Playing"]

AudioQueue_clear(dev) == [dev EXCEPT !.size = 0]

AudioQueue_queue_audio(dev) == [dev EXCEPT !.size = @ + 1]

AudioQueue_size(dev) == dev.size * BatchBytes

\* EmuContext::new: an empty Nes, paused and muted, no ROM path; frames
\* counts the step_one_frame calls on emu, running is main's 'running loop
EmuContext_new ==
  [ emu       |-> [console |-> "Nes", frames |-> 0],
    is_paused |-> TRUE,
    is_muted  |-> TRUE,
    audio_dev |-> open_queue,
    rom_path  |-> "",
    running   |-> TRUE ]

\* the files dropped on the window: open_rom boots a Nes or a Gameboy, or
\* fails
Roms == {"Nes", "Gameboy", "Invalid"}

\* EmuContext::try_init: a failure returns before any field is assigned
try_init(c, rom) ==
  IF rom = "Invalid" THEN c
  ELSE LET emu == [console |-> rom, frames |-> 0]
           audio_enabled == audio_spec(emu)
           opened == AudioQueue_clear(open_queue)
           audio_dev == IF audio_enabled THEN AudioQueue_resume(opened) ELSE opened
       IN  [c EXCEPT !.is_paused = FALSE,
                     !.is_muted = ~audio_enabled,
                     !.rom_path = rom,
                     !.audio_dev = audio_dev,
                     !.emu = emu]

\* the Option<InputEvent> a key or a pad button maps to, and the InputKind
InputEvents == {None, Some("Game"), Some("Pause"), Some("Reset"), Some("Save"),
                Some("Load"), Some("Mute")}

InputKinds == {"Press", "Release"}

\* match_input; emu.input_event, reset, save and load change nothing that
\* is kept here
match_input(c, input, kind) ==
  IF input = None THEN c
  ELSE IF input = Some("Game") THEN c
  ELSE IF kind # "Press" THEN c
  ELSE IF input = Some("Pause") THEN
    [c EXCEPT !.is_paused = ~c.is_paused,
              !.audio_dev = IF c.audio_dev.status = "Playing"
                            THEN AudioQueue_pause(@) ELSE AudioQueue_resume(@)]
  ELSE IF input = Some("Reset") THEN
    [c EXCEPT !.audio_dev = AudioQueue_resume(AudioQueue_clear(AudioQueue_pause(@))),
              !.is_paused = FALSE]
  ELSE IF input = Some("Mute") THEN
    [c EXCEPT !.is_muted = ~c.is_muted,
              !.audio_dev = IF c.audio_dev.status = "Playing"
                            THEN AudioQueue_clear(AudioQueue_pause(@))
                            ELSE AudioQueue_resume(@)]
  ELSE \* Save and Load
    [c EXCEPT !.audio_dev = IF ~c.is_muted
                            THEN AudioQueue_resume(AudioQueue_pause(@))
                            ELSE AudioQueue_pause(@)]

\* main: the head of one turn of the loop, up to the event poll
step_frames(c) ==
  IF c.is_paused THEN c
  ELSE LET again == ~c.is_muted /\ AudioQueue_size(c.audio_dev) < 735 * 3
           emu == [c.emu EXCEPT !.frames = @ + (IF again THEN 2 ELSE 1)]
       IN  IF c.is_muted
           THEN [c EXCEPT !.emu = emu]
           ELSE [c EXCEPT !.emu = emu, !.audio_dev = AudioQueue_queue_audio(@)]

(***************************************************************************)
(* The state machine                                                       *)
(***************************************************************************)
MaxOps == 9
MaxSideloads == 1

Init ==
  /\ bios \in Images
  /\ cpu = Cpu_new(Mmu_new)
  /\ fault = NoFault
  /\ hist = << >>
  /\ sideloads = 0
  /\ ctx = EmuContext_new

\* what an operation leaves in hist: the Cpu it started from, the register
\* file after the write-back commit (what the instruction reads), whether a
\* word was fetched, and the step's MMU calls and exceptions, in order
Seen(op, s0, s1) ==
  [ op      |-> op,
    pre     |-> cpu,
    seen    |-> s0.regs,
    fetched |-> op = "step" /\ cpu.pc % 4 = 0,
    i       |-> s1.i,
    bus     |-> s1.bus,
    raised  |-> s1.raised,
    fault   |-> s1.fault ]

\* an operation's outcome s1 becomes the Cpu, and its record joins hist
Record(op, s0, s1) ==
  /\ cpu' = CpuOf(s1)
  /\ fault' = s1.fault
  /\ hist' = Append(hist, Seen(op, s0, s1))

\* one call of Cpu::step
Step ==
  /\ fault = NoFault
  /\ Len(hist) < MaxOps
  /\ Record("step", commit(Machine(cpu)), step(Machine(cpu)))
  /\ UNCHANGED << bios, sideloads, ctx >>

\* Cpu::sideload_exe once its loop has ended
SideloadExe(exe) ==
  /\ fault = NoFault
  /\ Len(hist) < MaxOps
  /\ sideloads < MaxSideloads
  /\ cpu.pc = U32(\h8003, \h0000)
  /\ Record("sideload", Machine(cpu), overlay(Machine(cpu), exe))
  /\ sideloads' = sideloads + 1
  /\ UNCHANGED << bios, ctx >>

Sideload == \E exe \in Exes : SideloadExe(exe)

Next == Step \/ Sideload

Spec == Init /\ [][Next]_vars

(***************************************************************************)
(* The frontend's main loop                                                *)
(***************************************************************************)
FrontendInit ==
  /\ bios = << >>
  /\ cpu = Cpu_new(Mmu_new)
  /\ fault = NoFault
  /\ hist = << >>
  /\ sideloads = 0
  /\ ctx = EmuContext_new

\* one turn of the loop before its events are polled
Frame ==
  /\ ctx.running
  /\ ctx.is_paused \/ ctx.emu.frames + 2 <= MaxFrames
  /\ ctx.is_paused \/ ctx.is_muted \/ ctx.audio_dev.size < MaxQueued
  /\ ctx' = step_frames(ctx)
  /\ UNCHANGED << bios, cpu, fault, hist, sideloads >>

\* handle_input on a key or button event
Input ==
  /\ ctx.running
  /\ \E input \in InputEvents, kind \in InputKinds : ctx' = match_input(ctx, input, kind)
  /\ UNCHANGED << bios, cpu, fault, hist, sideloads >>

\* Event::DropFile
DropFile ==
  /\ ctx.running
  /\ \E rom \in Roms : ctx' = try_init(ctx, rom)
  /\ UNCHANGED << bios, cpu, fault, hist, sideloads >>

\* Event::Quit
Quit ==
  /\ ctx.running
  /\ ctx' = [ctx EXCEPT !.audio_dev = AudioQueue_pause(@), !.running = FALSE]
  /\ UNCHANGED << bios, cpu, fault, hist, sideloads >>

\* the playing device takes one batch off its queue
Play ==
  /\ ctx.running
  /\ ctx.audio_dev.status = "Playing"
  /\ ctx.audio_dev.size > 0
  /\ ctx' = [ctx EXCEPT !.audio_dev.size = @ - 1]
  /\ UNCHANGED << bios, cpu, fault, hist, sideloads >>

FrontendNext == Frame \/ Input \/ DropFile \/ Quit \/ Play

Frontend == FrontendInit /\ [][FrontendNext]_vars

(***************************************************************************)
(* Reading hist.  Operation n started from hist[n].pre and left Post(n).   *)
(***************************************************************************)
Ops == 1..Len(hist)

Post(n) == IF n < Len(hist) THEN hist[n + 1].pre ELSE cpu

\* a call of step() that returned
Stepped(n) == hist[n].op = "step" /\ hist[n].fault = NoFault

\* ... and that fetched and executed the word hist[n].i at hist[n].pre.pc
Executed(n) == Stepped(n) /\ hist[n].fetched

\* a call of step() that entered an exception
Raised(n) == Stepped(n) /\ hist[n].raised # << >>

\* the words decode sends to jump, jal, jr, jalr, bxxx or a branch
IsBranchOrJump(i) ==
  opcode(i) \in {1, 2, 3, 4, 5, 6, 7} \/ (opcode(i) = 0 /\ funct(i) \in {8, 9})

\* the words decode sends to lb, lh, lw, lbu, lhu or mfc0
IsLoad(i) ==
  opcode(i) \in {32, 33, 35, 36, 37} \/ (opcode(i) = 16 /\ rs(i) = 0)

\* the general registers whose value the handler of word i reads (lwl and
\* lwr take rt from the queue when it holds one: rt is not listed for them)
reads(i) ==
  CASE opcode(i) = 0 ->
         ( CASE funct(i) \in {0, 2, 3}       -> { rt(i) }
             [] funct(i) \in {8, 9, 17, 19}  -> { rs(i) }
             [] funct(i) \in {12, 13, 16, 18} -> {}
             [] OTHER                        -> { rs(i), rt(i) } )
    [] opcode(i) \in {1, 6, 7}               -> { rs(i) }
    [] opcode(i) \in {4, 5}                  -> { rs(i), rt(i) }
    [] opcode(i) \in 8..14                   -> { rs(i) }
    [] opcode(i) = 16                        -> IF rs(i) = 4 THEN { rt(i) } ELSE {}
    [] opcode(i) \in 32..38                  -> { rs(i) }
    [] opcode(i) \in {40, 41, 42, 43, 46}    -> { rs(i), rt(i) }
    [] OTHER                                 -> {}

\* the general registers the handler of word i may write or queue a write to
writes(i) ==
  CASE opcode(i) = 0 ->
         IF funct(i) \in {8, 12, 13, 17, 19, 24, 25, 26, 27} THEN {} ELSE { rd(i) }
    [] opcode(i) \in {1, 3}                  -> { 31 }
    [] opcode(i) \in 8..15                   -> { rt(i) }
    [] opcode(i) = 16                        -> IF rs(i) = 0 THEN { rt(i) } ELSE {}
    [] opcode(i) \in {32, 33, 34, 35, 36, 37, 38} -> { rt(i) }
    [] OTHER                                 -> {}

\* step n ran a load that queued its result
Loaded(n) ==
  Executed(n) /\ IsLoad(hist[n].i) /\ Len(Post(n).ld_delay_slots) = 1

LoadedValue(n) == Post(n).ld_delay_slots[1][2]

\* step n ran a branch or jump that sent next_pc elsewhere
Redirects(n) ==
  /\ Executed(n)
  /\ IsBranchOrJump(hist[n].i)
  /\ Post(n).next_pc # wrapping_add(hist[n].pre.next_pc, 4)

\* step n was entered with next_pc = pc + 4: it is not in the delay slot of a
\* branch or jump that sent control elsewhere
Sequential(n) == hist[n].pre.next_pc = wrapping_add(hist[n].pre.pc, 4)

\* the step before step n ran a branch or jump
AfterBranch(n) == n > 1 /\ Executed(n - 1) /\ IsBranchOrJump(hist[n - 1].i)

\* step n is the first, or the step before it ran a word that is no branch or jump
NotInDelaySlot(n) ==
  n = 1 \/ (Executed(n - 1) /\ ~IsBranchOrJump(hist[n - 1].i))

(***************************************************************************)
(* C1  Load delay                                                          *)
(***************************************************************************)
\* C1: when step n runs a load (LW, LH, LHU, LB, LBU, MFC0) with target r
\* and step n+1 runs a word that reads r, that word sees the value r held
\* before the load; and the loaded value is what step n+2 sees in r (r not
\* r0, and step n+1 not itself writing r).
C1_LoadDelay ==
  \A n \in Ops :
    (Loaded(n) /\ n < Len(hist) /\ Executed(n + 1)) =>
      LET r == rt(hist[n].i)
      IN  /\ r \in reads(hist[n + 1].i) =>
               hist[n + 1].seen[r] = hist[n].seen[r]
          /\ ( /\ n + 2 <= Len(hist)
               /\ hist[n + 2].op = "step"
               /\ r # 0
               /\ r \notin writes(hist[n + 1].i) ) =>
               hist[n + 2].seen[r] = LoadedValue(n)

\* the case of C1: a load of a value other than the target's, then a reader
C1_Witness ==
  \E n \in Ops :
    /\ Loaded(n) /\ n < Len(hist) /\ Executed(n + 1)
    /\ rt(hist[n].i) \in reads(hist[n + 1].i)
    /\ LoadedValue(n) # hist[n].seen[rt(hist[n].i)]

(***************************************************************************)
(* C2  Branch delay                                                        *)
(***************************************************************************)
\* C2 as claimed: after every taken branch or jump run at A, wherever it
\* sits, the next step runs the word at A + 4, and the step after that one
\* (if it raised no exception) runs the word at the target.
C2_BranchDelayAnywhere ==
  \A n \in Ops :
    (Redirects(n) /\ n < Len(hist) /\ hist[n + 1].op = "step") =>
      /\ hist[n + 1].pre.pc = wrapping_add(hist[n].pre.pc, 4)
      /\ ( /\ n + 2 <= Len(hist)
           /\ Stepped(n + 1) /\ hist[n + 1].raised = << >>
           /\ hist[n + 2].op = "step" ) =>
           hist[n + 2].pre.pc = Post(n).next_pc

\* C2 as amended: after every taken branch or jump run at A that is not
\* itself in the delay slot of a taken branch or jump, the next step runs the
\* word at A + 4, and the step after that one (if it raised no exception)
\* runs the word at the target.
C2_BranchDelay ==
  \A n \in Ops :
    (Redirects(n) /\ Sequential(n) /\ n < Len(hist) /\ hist[n + 1].op = "step") =>
      /\ hist[n + 1].pre.pc = wrapping_add(hist[n].pre.pc, 4)
      /\ hist[n + 1].fetched
      /\ ( /\ n + 2 <= Len(hist)
           /\ Stepped(n + 1) /\ hist[n + 1].raised = << >>
           /\ hist[n + 2].op = "step" ) =>
           hist[n + 2].pre.pc = Post(n).next_pc

\* the case of C2: a taken branch, its delay slot and its target have run
C2_Witness ==
  \E n \in Ops :
    /\ Redirects(n) /\ Sequential(n)
    /\ n + 2 <= Len(hist)
    /\ Executed(n + 1) /\ hist[n + 1].raised = << >>
    /\ Executed(n + 2)
    /\ hist[n + 2].pre.pc # wrapping_add(hist[n + 1].pre.pc, 4)

(***************************************************************************)
(* C3  Register 0                                                          *)
(***************************************************************************)
\* C3: general register 0 holds 0 in every reachable state, and in the
\* register file every instruction reads: after Cpu::new, after every step
\* and after sideload_exe.
C3_RegisterZero ==
  /\ cpu.regs[0] = 0
  /\ \A n \in Ops : hist[n].seen[0] = 0 /\ hist[n].pre.regs[0] = 0

\* the case of C3: a step has committed the write-back of a non-zero loaded
\* value to r0
C3_Witness ==
  \E n \in Ops :
    /\ hist[n].op = "step"
    /\ hist[n].pre.ld_delay_slots # << >>
    /\ Head(hist[n].pre.ld_delay_slots)[1] = 0
    /\ Head(hist[n].pre.ld_delay_slots)[2] # 0

(***************************************************************************)
(* C4  Exception entry                                                     *)
(***************************************************************************)
\* the exception vector SR bit 22 selects
Vector(sr) ==
  IF (Hi(sr) \div 64) % 2 = 1 THEN U32(\hBFC0, \h0180) ELSE U32(\h8000, \h0080)

\* C4: when a step raises an exception of kind k, on its return CAUSE bits
\* 2..6 are k, SR bits 0..5 are ((old SR & 0x3F) << 2) & 0x3F and SR bits
\* 6..31 are unchanged, pc is 0xBFC00180 if SR bit 22 is set and 0x80000080
\* otherwise, next_pc = pc + 4, and the next step fetches from that address.
C4_ExceptionEntry ==
  \A n \in Ops :
    Raised(n) =>
      LET old_sr == hist[n].pre.cop0.sr
          post   == Post(n)
          k      == hist[n].raised[1]
      IN  /\ Len(hist[n].raised) = 1
          /\ k \in { Interrupt, IllegalLoad, IllegalStore, Syscall, Break,
                     IllegalInstr, CopError, Overflow }
          /\ (Lo(post.cop0.cause) \div 4) % 32 = k
          /\ Lo(post.cop0.sr) % 64 = ((Lo(old_sr) % 64) * 4) % 64
          /\ Lo(post.cop0.sr) \div 64 = Lo(old_sr) \div 64
          /\ Hi(post.cop0.sr) = Hi(old_sr)
          /\ post.pc = Vector(old_sr)
          /\ post.next_pc = wrapping_add(post.pc, 4)
          /\ n < Len(hist) =>
               /\ hist[n + 1].op = "step"
               /\ hist[n + 1].bus # << >>
               /\ hist[n + 1].bus[1] = << "read", 4, Vector(old_sr) >>

\* the case of C4: an exception raised with mode bits set in SR, and the
\* step after it
C4_Witness ==
  \E n \in Ops :
    /\ Raised(n)
    /\ Lo(hist[n].pre.cop0.sr) % 64 # 0
    /\ n < Len(hist)

(***************************************************************************)
(* C5  EPC and the branch-delay bit                                        *)
(***************************************************************************)
\* C5: when the step at X raises an exception, then if the step before it
\* ran a branch or jump (taken or not, wherever it sat) EPC is the address
\* of that branch or jump and CAUSE bit 31 is set; otherwise EPC is X.
C5_EpcBranchDelay ==
  \A n \in Ops :
    (Raised(n) /\ (n = 1 \/ hist[n - 1].op = "step")) =>
      IF AfterBranch(n)
      THEN /\ Post(n).cop0.epc = hist[n - 1].pre.pc
           /\ Post(n).cop0.cause < 0
      ELSE Post(n).cop0.epc = hist[n].pre.pc

(***************************************************************************)
(* C6  Overflow                                                            *)
(***************************************************************************)
IsAdd(i)  == opcode(i) = 0 /\ funct(i) = 32

IsSub(i)  == opcode(i) = 0 /\ funct(i) = 34

IsAddi(i) == opcode(i) = 8

\* the mathematical result of step n's ADD, ADDI or SUB is no i32
Overflows(n) ==
  LET a == hist[n].seen[rs(hist[n].i)]
      b == IF IsAddi(hist[n].i) THEN imm16sign(hist[n].i)
           ELSE hist[n].seen[rt(hist[n].i)]
  IN  IF IsSub(hist[n].i)
      THEN (b < 0 /\ a > 2147483647 + b) \/ (b > 0 /\ a < MinI32 + b)
      ELSE (a > 0 /\ b > 2147483647 - a) \/ (a < 0 /\ b < MinI32 - a)

\* the exact sum or difference, when it is an i32
Exact(n) ==
  LET a == hist[n].seen[rs(hist[n].i)]
      b == IF IsAddi(hist[n].i) THEN imm16sign(hist[n].i)
           ELSE hist[n].seen[rt(hist[n].i)]
  IN  IF IsSub(hist[n].i) THEN a - b ELSE a + b

Destination(n) == IF IsAddi(hist[n].i) THEN rt(hist[n].i) ELSE rd(hist[n].i)

Arithmetic(n) ==
  Executed(n) /\ (IsAdd(hist[n].i) \/ IsAddi(hist[n].i) \/ IsSub(hist[n].i))

\* an overflowing ADD, ADDI or SUB leaves the registers it saw, HI, LO and
\* RAM as they were and enters Overflow, with EPC its own address when it is
\* not in a delay slot
OverflowIsAtomic(n) ==
  /\ hist[n].raised = << Overflow >>
  /\ Post(n).regs = hist[n].seen
  /\ Post(n).hi = hist[n].pre.hi
  /\ Post(n).lo = hist[n].pre.lo
  /\ Post(n).mmu.ram = hist[n].pre.mmu.ram
  /\ NotInDelaySlot(n) => Post(n).cop0.epc = hist[n].pre.pc

C7_FetchAlignment ==
  \A n \in Ops :
    Stepped(n) =>
      IF hist[n].pre.pc % 4 = 0
      THEN /\ hist[n].bus # << >>
           /\ hist[n].bus[1] = << "read", 4, hist[n].pre.pc >>
           /\ Post(n).curr_pc = hist[n].pre.pc
      ELSE /\ hist[n].bus = << >>
           /\ hist[n].raised = << IllegalLoad >>
           /\ Post(n).i = hist[n].pre.i
           /\ Post(n).regs = hist[n].seen
           /\ Post(n).cop0.epc = hist[n].pre.pc

(***************************************************************************)
(* C8  The PC triplet                                                      *)
(***************************************************************************)
\* the condition of the branch word i on the registers regs (for REGIMM,
\* bit 0 of rt chooses between rs >= 0 and rs < 0)
Condition(i, regs) ==
  CASE opcode(i) = 4 -> regs[rs(i)] = regs[rt(i)]
    [] opcode(i) = 5 -> regs[rs(i)] # regs[rt(i)]
    [] opcode(i) = 6 -> regs[rs(i)] <= 0
    [] opcode(i) = 7 -> regs[rs(i)] > 0
    [] opcode(i) = 1 -> IF rt(i) % 2 = 1 THEN regs[rs(i)] >= 0 ELSE regs[rs(i)] < 0

\* step n ran a conditional branch whose condition was false (a REGIMM word
\* testing r31 may link before it tests, and is not judged here)
NotTaken(n) ==
  /\ opcode(hist[n].i) \in {1, 4, 5, 6, 7}
  /\ ~(opcode(hist[n].i) = 1 /\ rs(hist[n].i) = 31)
  /\ ~Condition(hist[n].i, hist[n].seen)

\* C8: for every step that raises no exception, curr_pc after it is pc
\* before it and pc after it is next_pc before it (also when the word is a
\* jump or branch, which change next_pc only); and next_pc after it is the
\* old next_pc + 4 mod 2^32 unless the word was a jump or a taken branch.
C8_PcTriplet ==
  \A n \in Ops :
    (Executed(n) /\ hist[n].raised = << >>) =>
      /\ Post(n).curr_pc = hist[n].pre.pc
      /\ Post(n).pc = hist[n].pre.next_pc
      /\ (~IsBranchOrJump(hist[n].i) \/ NotTaken(n)) =>
           Post(n).next_pc = wrapping_add(hist[n].pre.next_pc, 4)

\* the case of C8: a jump or taken branch, a branch not taken and a plain
\* word have each run
C8_Witness ==
  /\ \E n \in Ops : Redirects(n) /\ hist[n].raised = << >>
  /\ \E n \in Ops : Executed(n) /\ NotTaken(n)
  /\ \E n \in Ops : Executed(n) /\ hist[n].raised = << >>
                    /\ ~IsBranchOrJump(hist[n].i)

(***************************************************************************)
(* C9  Alignment of the CPU's MMU calls                                    *)
(***************************************************************************)
\* C9: every read16/write16 call a step makes has an even address and every
\* read32/write32 call an address that is a multiple of 4, so the MMU's
\* alignment assertion never fails (SWL and SWR included).
C9_AlignedAccesses ==
  \A n \in Ops :
    /\ \A k \in 1..Len(hist[n].bus) : hist[n].bus[k][3] % hist[n].bus[k][2] = 0
    /\ hist[n].fault \notin { "unaligned memory read", "unaligned memory write" }

(***************************************************************************)
(* C10  Host faults                                                        *)
(***************************************************************************)
\* the words of a coprocessor-2 access: COP2, LWC2, SWC2
IsCop2(i) == opcode(i) \in {18, 50, 58}

\* an MTC0 of a non-zero register value
IsMtc0NonZero(i, regs) == opcode(i) = 16 /\ rs(i) = 4 /\ regs[rt(i)] # 0

\* C10: a step aborts only when its word is a coprocessor-2 access or an
\* MTC0 writing a non-zero value; every other step returns.
C10_OnlyHostFaults ==
  \A n \in Ops :
    (hist[n].op = "step" /\ hist[n].fault # NoFault) =>
      IsCop2(hist[n].i) \/ IsMtc0NonZero(hist[n].i, hist[n].seen)

(***************************************************************************)
(* C11, C12  Cache isolation                                               *)
(***************************************************************************)
\* a call of step() that fetched the word hist[n].i, returning or not
Ran(n) == hist[n].op = "step" /\ hist[n].fetched

\* step n ran with SR bit 16 set
Isolated(n) == is_cache_isolated(hist[n].pre.cop0)

\* the words decode sends to sb, sh, sw, swl or swr
IsStore(i) == opcode(i) \in {40, 41, 42, 43, 46}

\* the words decode sends to lb, lh, lwl, lw, lbu, lhu or lwr
IsMemoryLoad(i) == opcode(i) \in {32, 33, 34, 35, 36, 37, 38}

\* C11: a store (SB, SH, SW, SWL, SWR) run while SR bit 16 is set leaves
\* every byte of RAM as it was, raises no exception and does not abort.
C11_IsolatedStores ==
  \A n \in Ops :
    (Ran(n) /\ Isolated(n) /\ IsStore(hist[n].i)) =>
      /\ hist[n].fault = NoFault
      /\ hist[n].raised = << >>
      /\ Post(n).mmu.ram = hist[n].pre.mmu.ram

\* C12: a memory load (LB, LBU, LH, LHU, LW, LWL, LWR) run while SR bit 16
\* is set queues no write-back, raises no exception and does not abort.
C12_IsolatedLoads ==
  \A n \in Ops :
    (Ran(n) /\ Isolated(n) /\ IsMemoryLoad(hist[n].i)) =>
      /\ hist[n].fault = NoFault
      /\ hist[n].raised = << >>
      /\ Post(n).ld_delay_slots = << >>

(***************************************************************************)
(* C13  Misaligned data accesses                                           *)
(***************************************************************************)
\* the effective address the load or store of step n computes
Address(n) == wrapping_add(hist[n].seen[rs(hist[n].i)], imm16sign(hist[n].i))

\* step n ran LW at an address off a word boundary, or LH/LHU at an odd one
MisalignedLoad(n) ==
  \/ opcode(hist[n].i) = 35 /\ Address(n) % 4 # 0
  \/ opcode(hist[n].i) \in {33, 37} /\ Address(n) % 2 # 0

\* step n ran SW at an address off a word boundary, or SH at an odd one
MisalignedStore(n) ==
  \/ opcode(hist[n].i) = 43 /\ Address(n) % 4 # 0
  \/ opcode(hist[n].i) = 41 /\ Address(n) % 2 # 0

\* what a misaligned access, or a byte access, of step n must come to
FaultsWithoutEffect(n) ==
  /\ MisalignedLoad(n) =>
       /\ hist[n].fault = NoFault
       /\ hist[n].raised = << IllegalLoad >>
       /\ BitAnd(Post(n).cop0.cause, \h7C) = IllegalLoad * 4
       /\ Post(n).ld_delay_slots = << >>
  /\ MisalignedStore(n) =>
       /\ hist[n].fault = NoFault
       /\ hist[n].raised = << IllegalStore >>
       /\ BitAnd(Post(n).cop0.cause, \h7C) = IllegalStore * 4
       /\ Post(n).mmu.ram = hist[n].pre.mmu.ram
  /\ opcode(hist[n].i) \in {32, 36, 40} =>
       /\ IllegalLoad \notin { hist[n].raised[k] : k \in 1..Len(hist[n].raised) }
       /\ IllegalStore \notin { hist[n].raised[k] : k \in 1..Len(hist[n].raised) }

\* C13 as stated: every misaligned LW/LH/LHU raises IllegalLoad and queues
\* nothing, every misaligned SW/SH raises IllegalStore and leaves RAM alone,
\* and LB, LBU, SB raise no alignment exception, whatever SR holds.
C13_MisalignedAnywhere == \A n \in Ops : Ran(n) => FaultsWithoutEffect(n)

\* C13: the same of every access made while SR bit 16 is clear; while it is
\* set the access is dropped before its address is looked at.
C13_Misaligned ==
  \A n \in Ops :
    /\ (Ran(n) /\ ~Isolated(n)) => FaultsWithoutEffect(n)
    /\ (Ran(n) /\ Isolated(n) /\ (MisalignedLoad(n) \/ MisalignedStore(n))) =>
         /\ hist[n].fault = NoFault
         /\ hist[n].raised = << >>
         /\ Post(n).ld_delay_slots = << >>
         /\ Post(n).mmu.ram = hist[n].pre.mmu.ram

\* a misaligned LH and then a misaligned SW have run with SR bit 16 clear
C13_Witness ==
  \E n \in Ops, m \in Ops :
    /\ n < m
    /\ Ran(n) /\ ~Isolated(n) /\ opcode(hist[n].i) = 33 /\ MisalignedLoad(n)
    /\ hist[n].raised = << IllegalLoad >>
    /\ Ran(m) /\ ~Isolated(m) /\ MisalignedStore(m)
    /\ hist[m].raised = << IllegalStore >>

(***************************************************************************)
(* C14  LWL and LWR after a load to the same register                      *)
(***************************************************************************)
\* the bits of the register operand that the LWL or LWR word i keeps at addr
KeptBits(i, addr) ==
  IF opcode(i) = 34
  THEN CASE addr % 4 = 0 -> U32(\h00FF, \hFFFF)
         [] addr % 4 = 1 -> U32(\h0000, \hFFFF)
         [] addr % 4 = 2 -> U32(\h0000, \h00FF)
         [] addr % 4 = 3 -> 0
  ELSE CASE addr % 4 = 0 -> 0
         [] addr % 4 = 1 -> U32(\hFF00, \h0000)
         [] addr % 4 = 2 -> U32(\hFFFF, \h0000)
         [] addr % 4 = 3 -> U32(\hFFFF, \hFF00)

\* step n queued a load to r and step n+1 ran LWL or LWR with rt = r
MergesAfterLoad(n, r) ==
  /\ n < Len(hist)
  /\ Ran(n) /\ hist[n].fault = NoFault
  /\ opcode(hist[n].i) \in {16, 32, 33, 34, 35, 36, 37, 38}
  /\ Len(Post(n).ld_delay_slots) = 1
  /\ Post(n).ld_delay_slots[1][1] = r
  /\ Executed(n + 1)
  /\ opcode(hist[n + 1].i) \in {34, 38}
  /\ rt(hist[n + 1].i) = r

\* the left shift the LWL or LWR word i applies to the aligned word at addr
WordShift(i, addr) ==
  IF opcode(i) = 34 THEN 24 - 8 * (addr % 4) ELSE 8 * (addr % 4)

\* what the LWL/LWR of step n queues when its register operand is `operand`
Merged(n, operand) ==
  BitOr(BitAnd(operand, KeptBits(hist[n].i, Address(n))),
        Shl(Mmu_read(hist[n].pre.mmu, 4, BitAnd(Address(n), BitNot(3))),
            WordShift(hist[n].i, Address(n))))

\* ... and the register operand of that LWL/LWR is the loaded value
MergesLoaded(n) ==
  /\ Len(Post(n + 1).ld_delay_slots) = 1
  /\ Post(n + 1).ld_delay_slots[1][2] = Merged(n + 1, LoadedValue(n))

\* steps n and n+1 ran LWL r,a+3 and LWR r,a, and step n+2 has committed
PairCommitted(n, r) ==
  /\ n + 2 <= Len(hist)
  /\ Executed(n) /\ opcode(hist[n].i) = 34 /\ rt(hist[n].i) = r
  /\ Address(n) % 4 = 3
  /\ Executed(n + 1) /\ opcode(hist[n + 1].i) = 38 /\ rt(hist[n + 1].i) = r
  /\ Address(n + 1) = wrapping_sub(Address(n), 3)
  /\ hist[n + 2].op = "step"

\* the aligned word W at the address of the LWR of step n+1
PairWord(n) == Mmu_read(hist[n + 1].pre.mmu, 4, Address(n + 1))

\* the two halves of C14 for the steps n, n+1 and the register r
MergeSeesLoad(n, r) ==
  /\ MergesAfterLoad(n, r) => MergesLoaded(n)
  /\ PairCommitted(n, r) => hist[n + 2].seen[r] = PairWord(n)

\* C14 as stated: an LWL/LWR that follows a load to its rt merges into the
\* loaded value, and LWL r,a+3; LWR r,a leaves r = W, for every register r.
C14_PendingMergeAnyRegister ==
  \A n \in Ops : n < Len(hist) => MergeSeesLoad(n, rt(hist[n + 1].i))

\* C14: the same for every register but r0, which reads 0 whatever is
\* loaded into it.
C14_PendingMerge ==
  \A n \in Ops :
    (n < Len(hist) /\ rt(hist[n + 1].i) # 0) => MergeSeesLoad(n, rt(hist[n + 1].i))

\* in one run, an LWR has merged into a value loaded the step before where
\* the register's old content would have merged differently, and an LWL/LWR
\* pair has committed a word that differs from what the register held
C14_Witness ==
  \E n \in Ops, m \in Ops :
    /\ MergesAfterLoad(n, 5)
    /\ Merged(n + 1, LoadedValue(n)) # Merged(n + 1, hist[n].seen[5])
    /\ PairCommitted(m, 5)
    /\ hist[m + 2].seen[5] = PairWord(m)
    /\ hist[m].seen[5] # PairWord(m)

(***************************************************************************)
(* C15  Exception entry and RFE                                            *)
(***************************************************************************)
\* the word decode sends to rfe, and rfe accepts
IsRfe(i) == opcode(i) = 16 /\ rs(i) = 16 /\ funct(i) = 16

\* SR did not change from the end of step n to the start of step m
SrKept(n, m) == \A k \in (n + 1)..(m - 1) : Post(k).cop0.sr = hist[k].pre.cop0.sr

\* step n entered an exception, step m ran RFE, and SR has bits 0..3 and
\* 6..31 as before step n
RoundTrip(n, m) ==
  /\ BitAnd(Post(m).cop0.sr, 15) = BitAnd(hist[n].pre.cop0.sr, 15)
  /\ BitAnd(Post(m).cop0.sr, BitNot(\h3F)) = BitAnd(hist[n].pre.cop0.sr, BitNot(\h3F))

\* the step n that ran RFE moved SR bits 0..5 down by two and left the rest
\* of the machine as the step's write-back commit and pc advance had put it
\* (a step that ran in a delay slot ends with in_delay_slot cleared)
RfeAlone(n) ==
  /\ hist[n].raised = << >>
  /\ BitAnd(Post(n).cop0.sr, \h3F) = Shr(BitAnd(hist[n].pre.cop0.sr, \h3F), 2)
  /\ BitAnd(Post(n).cop0.sr, BitNot(\h3F)) = BitAnd(hist[n].pre.cop0.sr, BitNot(\h3F))
  /\ Post(n).cop0.cause = hist[n].pre.cop0.cause
  /\ Post(n).cop0.epc = hist[n].pre.cop0.epc
  /\ Post(n).regs = hist[n].seen
  /\ Post(n).hi = hist[n].pre.hi
  /\ Post(n).lo = hist[n].pre.lo
  /\ Post(n).mmu = hist[n].pre.mmu
  /\ Post(n).ld_delay_slots = << >>
  /\ hist[n].bus = << << "read", 4, hist[n].pre.pc >> >>
  /\ Post(n).curr_pc = hist[n].pre.pc
  /\ Post(n).pc = hist[n].pre.next_pc
  /\ Post(n).next_pc = wrapping_add(hist[n].pre.next_pc, 4)
  /\ ~Post(n).in_delay_slot

\* C15: an exception entry followed by an RFE, SR not written in between,
\* restores SR bits 0..3 and leaves bits 6..31 as they were; and an RFE
\* by itself moves SR bits 0..5 to (bits 0..5) >> 2 and changes nothing
\* else but the pc triplet.
C15_ExceptionRfe ==
  \A m \in Ops :
    (Executed(m) /\ IsRfe(hist[m].i)) =>
      /\ RfeAlone(m)
      /\ \A n \in 1..(m - 1) : (Raised(n) /\ SrKept(n, m)) => RoundTrip(n, m)

\* an exception taken with SR bits 0..5 all set, a handler word, then RFE:
\* bits 0..3 are back, bits 4..5 are not
C15_Witness ==
  \E n \in Ops, m \in Ops :
    /\ n + 1 < m
    /\ Raised(n) /\ SrKept(n, m)
    /\ BitAnd(hist[n].pre.cop0.sr, \h3F) = \h3F
    /\ BitAnd(Post(n).cop0.sr, \h3F) = \h3C
    /\ Executed(m) /\ IsRfe(hist[m].i)
    /\ BitAnd(Post(m).cop0.sr, \h3F) = 15

(***************************************************************************)
(* C16  Division                                                           *)
(***************************************************************************)
\* |x| < |y| for 32-bit signed x and y
SmallerThan(x, y) ==
  /\ x # MinI32
  /\ \/ y = MinI32
     \/ (IF x < 0 THEN 0 - x ELSE x) < (IF y < 0 THEN 0 - y ELSE y)

\* q and r are the quotient truncated toward zero and the remainder of the
\* signed division of a by b: a = q * b + r, |r| < |b|, r has the sign of a
IsSignedDivision(a, b, q, r) ==
  /\ wrapping_add(SMul64(q, b)[2], r) = a
  /\ SMul64(q, b)[1] = (IF SMul64(q, b)[2] < 0 THEN -1 ELSE 0)
  /\ SmallerThan(r, b)
  /\ r = 0 \/ ((r < 0) <=> (a < 0))

\* q and r are the quotient and remainder of the unsigned division of a by b
IsUnsignedDivision(a, b, q, r) ==
  /\ UMul64(q, b)[1] = 0
  /\ wrapping_add(UMul64(q, b)[2], r) = a
  /\ ULe(UMul64(q, b)[2], a)
  /\ ULt(r, b)

\* the table for DIV: dividend a, divisor b, results hi and lo
DivTable(a, b, high, low) ==
  IF b = 0
  THEN high = a /\ low = (IF a >= 0 THEN U32(\hFFFF, \hFFFF) ELSE 1)
  ELSE IF a = U32(\h8000, \h0000) /\ b = -1
  THEN high = 0 /\ low = U32(\h8000, \h0000)
  ELSE IsSignedDivision(a, b, low, high)

\* the table for DIVU
DivuTable(a, b, high, low) ==
  IF b = 0
  THEN high = a /\ low = U32(\hFFFF, \hFFFF)
  ELSE IsUnsignedDivision(a, b, low, high)

\* C16: every DIV and DIVU returns without an exception and leaves HI and LO
\* as the table has them: for a zero divisor HI = dividend and LO =
\* 0xFFFFFFFF (DIV of a negative dividend: 1), for DIV of 0x80000000 by -1
\* HI = 0 and LO = 0x80000000, else HI = remainder and LO = quotient.
C16_DivisionTable ==
  \A n \in Ops :
    (Ran(n) /\ opcode(hist[n].i) = 0 /\ funct(hist[n].i) \in {26, 27}) =>
      /\ hist[n].fault = NoFault
      /\ hist[n].raised = << >>
      /\ IF funct(hist[n].i) = 26
         THEN DivTable(hist[n].seen[rs(hist[n].i)], hist[n].seen[rt(hist[n].i)],
                       Post(n).hi, Post(n).lo)
         ELSE DivuTable(hist[n].seen[rs(hist[n].i)], hist[n].seen[rt(hist[n].i)],
                        Post(n).hi, Post(n).lo)

(***************************************************************************)
(* C17  Reset                                                              *)
(***************************************************************************)
\* C17: right after Cpu::new, r0 = 0, r1..r31 hold the sentinel, HI = LO = 0,
\* pc = 0xBFC00000, next_pc = pc + 4, SR = CAUSE = EPC = 0, in_delay_slot
\* is false and the load-delay queue is empty.
C17_ResetState ==
  hist = << >> =>
    /\ cpu.regs[0] = 0
    /\ \A r \in 1..31 : cpu.regs[r] = U32(\hDEAD, \hBEEF)
    /\ cpu.hi = 0 /\ cpu.lo = 0
    /\ cpu.pc = U32(\hBFC0, \h0000)
    /\ cpu.next_pc = wrapping_add(cpu.pc, 4)
    /\ cpu.cop0 = [sr |-> 0, cause |-> 0, epc |-> 0]
    /\ ~cpu.in_delay_slot
    /\ cpu.ld_delay_slots = << >>

(***************************************************************************)
(* C18  The branch-delay scenario                                          *)
(***************************************************************************)
\* step n ran BEQ r0,r0,+2 from A with next_pc = A + 4, ORI r1,r0,0xAA is
\* at A + 4 and ORI r1,r0,0xBB at A + 8, and step n+1 has returned
BranchScenario(n) ==
  /\ n < Len(hist)
  /\ Executed(n) /\ hist[n].i = BEQ(0, 0, 2)
  /\ Sequential(n)
  /\ Mmu_read(hist[n].pre.mmu, 4, wrapping_add(hist[n].pre.pc, 4)) = ORI(1, 0, \hAA)
  /\ Mmu_read(hist[n].pre.mmu, 4, wrapping_add(hist[n].pre.pc, 8)) = ORI(1, 0, \hBB)
  /\ Stepped(n + 1)

\* C18 as stated: after the two steps r1 = 0xAA and curr_pc = A + 12.
C18_ScenarioCurrPc ==
  \A n \in Ops :
    BranchScenario(n) =>
      /\ Post(n + 1).regs[1] = \hAA
      /\ Post(n + 1).curr_pc = wrapping_add(hist[n].pre.pc, 12)

\* C18: after the two steps r1 = 0xAA, pc (the next word to run) = A + 12
\* and curr_pc (the word that ran last) = A + 4.
C18_Scenario ==
  \A n \in Ops :
    BranchScenario(n) =>
      /\ Post(n + 1).regs[1] = \hAA
      /\ Post(n + 1).pc = wrapping_add(hist[n].pre.pc, 12)
      /\ Post(n + 1).curr_pc = wrapping_add(hist[n].pre.pc, 4)
      /\ hist[n + 1].i = ORI(1, 0, \hAA)

\* the scenario has run from a pc that is not the reset pc, r1 not 0xAA before
C18_Witness ==
  \E n \in Ops :
    /\ BranchScenario(n)
    /\ hist[n].pre.pc # BIOS.start
    /\ hist[n].pre.regs[1] # \hAA
    /\ Post(n + 1).regs[1] = \hAA

(***************************************************************************)
(* C19  Jumps and links                                                    *)
(***************************************************************************)
\* the J/JAL target of the word of step n, fetched from A = hist[n].pre.pc
JumpTarget(n) ==
  BitOr(BitAnd(wrapping_add(hist[n].pre.pc, 4), U32(\hF000, \h0000)),
        Shl(imm26(hist[n].i), 2))

\* the operations n+1 and n+2 are steps: A + 4 ran, then the target
ThenRuns(n, target) ==
  /\ hist[n + 1].fetched
  /\ hist[n + 1].pre.pc = wrapping_add(hist[n].pre.pc, 4)
  /\ hist[n + 2].fetched
  /\ hist[n + 2].pre.pc = target

\* register r holds A + 8 after step n, and for the step after it
Links(n, r) ==
  /\ Post(n).regs[r] = wrapping_add(hist[n].pre.pc, 8)
  /\ (n < Len(hist) /\ hist[n + 1].op = "step") =>
       hist[n + 1].seen[r] = wrapping_add(hist[n].pre.pc, 8)

IsJalr(i) == opcode(i) = 0 /\ funct(i) = 9

\* C19 as stated: a J or JAL not in a delay slot is followed by A + 4 and
\* then by its target; JAL leaves A + 8 in r31 and JALR in rd, visible to
\* the delay slot.
C19_JumpAndLinkAnywhere ==
  \A n \in Ops :
    (Executed(n) /\ NotInDelaySlot(n)) =>
      /\ ( /\ opcode(hist[n].i) \in {2, 3}
           /\ n + 2 <= Len(hist)
           /\ hist[n + 1].op = "step" /\ hist[n + 2].op = "step" )
         => ThenRuns(n, JumpTarget(n))
      /\ opcode(hist[n].i) = 3 => Links(n, 31)
      /\ IsJalr(hist[n].i) => Links(n, rd(hist[n].i))

\* C19: a J or JAL entered with next_pc = pc + 4 is followed by A + 4 and,
\* when that step raises no exception, by its target; JAL leaves A + 8 in
\* r31, and JALR in rd when rd is not r0, visible to the delay slot.
C19_JumpAndLink ==
  \A n \in Ops :
    (Executed(n) /\ Sequential(n)) =>
      /\ ( /\ opcode(hist[n].i) \in {2, 3}
           /\ n + 2 <= Len(hist)
           /\ Stepped(n + 1) /\ hist[n + 1].raised = << >>
           /\ hist[n + 2].op = "step" )
         => ThenRuns(n, JumpTarget(n))
      /\ opcode(hist[n].i) = 3 => Links(n, 31)
      /\ (IsJalr(hist[n].i) /\ rd(hist[n].i) # 0) => Links(n, rd(hist[n].i))

\* a JAL has run in KSEG1, its delay slot has read the link from r31, and
\* the word at its target, in KSEG1 too, has run
C19_Witness ==
  \E n \in Ops :
    /\ n + 2 <= Len(hist)
    /\ Executed(n) /\ Sequential(n) /\ opcode(hist[n].i) = 3
    /\ hist[n].pre.pc = U32(\hBFC0, \h0014)
    /\ Executed(n + 1) /\ hist[n + 1].i = ADDIU(6, 31, 0)
    /\ Post(n + 1).regs[6] = U32(\hBFC0, \h001C)
    /\ hist[n + 2].fetched
    /\ hist[n + 2].pre.pc = U32(\hBFC0, \h0000) + LandingPad

(***************************************************************************)
(* C20  Conditional branches                                               *)
(***************************************************************************)
\* the words decode sends to beq, bne, blez, bgtz or bxxx
IsConditionalBranch(i) == opcode(i) \in {1, 4, 5, 6, 7}

\* the branch of step n is taken: its condition holds of the registers as
\* the handler reads them (BLTZAL and BGEZAL write r31 before they test)
Taken(n) ==
  IF opcode(hist[n].i) = 1 /\ rt(hist[n].i) \div 16 = 1
  THEN Condition(hist[n].i, [hist[n].seen EXCEPT ![31] = hist[n].pre.next_pc + 4])
  ELSE Condition(hist[n].i, hist[n].seen)

\* A + 4 + (sign-extended imm16 << 2) when taken, else A + 8
BranchTarget(n) ==
  IF Taken(n)
  THEN wrapping_add(wrapping_add(hist[n].pre.pc, 4), 4 * imm16sign(hist[n].i))
  ELSE wrapping_add(hist[n].pre.pc, 8)

\* C20: a conditional branch fetched from A and entered with next_pc =
\* pc + 4 leaves in_delay_slot set, the word at A + 4 runs next with
\* in_delay_slot set, and, when that word raises no exception, the step
\* after it runs the word at the target when taken and at A + 8 when not.
C20_BranchTarget ==
  \A n \in Ops :
    (Executed(n) /\ Sequential(n) /\ IsConditionalBranch(hist[n].i)) =>
      /\ Post(n).in_delay_slot
      /\ (n < Len(hist) /\ hist[n + 1].op = "step") =>
           /\ hist[n + 1].pre.in_delay_slot
           /\ hist[n + 1].pre.pc = wrapping_add(hist[n].pre.pc, 4)
      /\ ( /\ n + 2 <= Len(hist)
           /\ Stepped(n + 1) /\ hist[n + 1].raised = << >>
           /\ hist[n + 2].op = "step" )
         => ThenRuns(n, BranchTarget(n))

(***************************************************************************)
(* C21  REGIMM                                                             *)
(***************************************************************************)
\* the return address of the word of step n: the address after the word
\* that runs next
ReturnAddress(n) == wrapping_add(hist[n].pre.next_pc, 4)

\* the REGIMM word of step n links: bit 4 of rt is set
RegimmLinks(n) == (rt(hist[n].i) \div 16) % 2 = 1

\* the value of rs the REGIMM word of step n tests: r31 is written first
RegimmTested(n) ==
  IF RegimmLinks(n) /\ rs(hist[n].i) = 31
  THEN ReturnAddress(n)
  ELSE hist[n].seen[rs(hist[n].i)]

\* rs >= 0 when bit 0 of rt is set, rs < 0 when it is clear
RegimmCondition(n) ==
  IF rt(hist[n].i) % 2 = 1 THEN RegimmTested(n) >= 0 ELSE RegimmTested(n) < 0

\* C21: every REGIMM word, whatever its rt, branches on rs >= 0 when rt bit 0
\* is set and on rs < 0 when it is clear; it writes the return address to
\* r31 exactly when rt bit 4 is set, taken or not, and before it tests rs.
C21_Regimm ==
  \A n \in Ops :
    (Executed(n) /\ opcode(hist[n].i) = 1) =>
      /\ hist[n].raised = << >>
      /\ Post(n).next_pc =
           IF RegimmCondition(n)
           THEN wrapping_add(hist[n].pre.next_pc, 4 * imm16sign(hist[n].i))
           ELSE wrapping_add(hist[n].pre.next_pc, 4)
      /\ Post(n).regs[31] =
           IF RegimmLinks(n) THEN ReturnAddress(n) ELSE hist[n].seen[31]
      /\ \A r \in 0..30 : Post(n).regs[r] = hist[n].seen[r]

\* a REGIMM word with rt = 30 (bit 4 set, bit 0 clear, bits 1..3 set) and
\* rs = 31 has written the link and, testing it, has not branched, where
\* the negative value r31 held would have
C21_Witness ==
  \E n \in Ops :
    /\ Executed(n) /\ opcode(hist[n].i) = 1
    /\ rt(hist[n].i) = 30 /\ rs(hist[n].i) = 31
    /\ hist[n].seen[31] < 0
    /\ Post(n).regs[31] = ReturnAddress(n)
    /\ Post(n).next_pc = wrapping_add(hist[n].pre.next_pc, 4)

(***************************************************************************)
(* C22  COP0 registers                                                     *)
(***************************************************************************)
IsMtc0(i) == opcode(i) = 16 /\ rs(i) = 4

IsMfc0(i) == opcode(i) = 16 /\ rs(i) = 0

\* step n ran MTC0 to SR, CAUSE or EPC, step n+1 MFC0 of the same index,
\* and step n+2 has committed the write-back
WrittenThenRead(n) ==
  /\ n + 2 <= Len(hist)
  /\ Executed(n) /\ IsMtc0(hist[n].i) /\ rd(hist[n].i) \in {12, 13, 14}
  /\ Executed(n + 1) /\ IsMfc0(hist[n + 1].i) /\ rd(hist[n + 1].i) = rd(hist[n].i)
  /\ hist[n + 2].op = "step"

\* the target register of the MFC0 of step n+1 holds what step n wrote
Delivered(n) ==
  hist[n + 2].seen[rt(hist[n + 1].i)] = hist[n].seen[rt(hist[n].i)]

\* MFC0 of an index other than 12, 13, 14 delivers 0; MTC0 to a debug index
\* leaves SR, CAUSE, EPC alone, returning for the value 0 and aborting for
\* any other
OtherIndices(n) ==
  /\ ( /\ IsMfc0(hist[n].i) /\ rd(hist[n].i) \notin {12, 13, 14}
       /\ n < Len(hist) /\ hist[n + 1].op = "step" )
     => /\ hist[n].fault = NoFault
        /\ hist[n + 1].seen[rt(hist[n].i)] = 0
  /\ (IsMtc0(hist[n].i) /\ rd(hist[n].i) \in {3, 5, 6, 7, 9, 11}) =>
       /\ Post(n).cop0 = hist[n].pre.cop0
       /\ hist[n].raised = << >>
       /\ (hist[n].fault = NoFault) <=> (hist[n].seen[rt(hist[n].i)] = 0)

\* C22 as stated: MTC0 of v to index 12, 13 or 14 and then MFC0 of that
\* index delivers v to the MFC0's target register, whichever it is; and
\* the other indices behave as above.
C22_Cop0AccessAnyTarget ==
  \A n \in Ops :
    /\ WrittenThenRead(n) => Delivered(n)
    /\ Ran(n) => OtherIndices(n)

\* C22: the same, v being delivered to every target register but r0.
C22_Cop0Access ==
  \A n \in Ops :
    /\ (WrittenThenRead(n) /\ rt(hist[n + 1].i) # 0) => Delivered(n)
    /\ Ran(n) => OtherIndices(n)

\* a value that is neither 0 nor what CAUSE or r5 held has gone through
\* CAUSE into r5
C22_Witness ==
  \E n \in Ops :
    /\ WrittenThenRead(n)
    /\ rd(hist[n].i) = 13 /\ rt(hist[n + 1].i) = 5
    /\ hist[n].seen[rt(hist[n].i)] \notin { 0, hist[n].pre.cop0.cause, hist[n].seen[5] }
    /\ hist[n + 2].seen[5] = hist[n].seen[rt(hist[n].i)]

(***************************************************************************)
(* C23  Segment mirroring                                                  *)
(***************************************************************************)
KSEG0 == U32(\h8000, 0)

KSEG1 == U32(\hA000, 0)

\* the first and last word of every window of the decoder, the first word
\* past RAM, the exception vectors, and the cache control register's image
\* below 0x20000000
Windows == { EXP1, BIOS, SYS_CTRL, RAM_CTRL, IRQ_CTRL, DMA, TIMERS, SPU, EXP2, EXP3, RAM, GPU }

Boundaries ==
  { r.start : r \in Windows } \cup { wrapping_sub(r.end, 4) : r \in Windows }
  \cup { RAM.end, \h80, U32(\h1FC0, \h0180), U32(\h1FFE, \h0130) }

\* an address of KSEG0, KSEG1 or KSEG2
Segmented(addr) == Shr(addr, 29) >= 4

\* the addresses below 0x20000000 behind the latest step's loads and stores,
\* and after each store through a segment to one of the boundaries, all of
\* them
Accessed ==
  IF hist = << >> THEN {}
  ELSE { BitAnd(hist[Len(hist)].bus[k][3], U32(\h1FFF, \hFFFF)) :
           k \in 2..Len(hist[Len(hist)].bus) }

Mirrored ==
  IF /\ Accessed \cap Boundaries # {}
     /\ IsStore(hist[Len(hist)].i) /\ Segmented(Address(Len(hist)))
  THEN Boundaries ELSE Accessed

Aliases(A) == { BitOr(A, KSEG0), BitOr(A, KSEG1) }

\* Mmu::read and Mmu::write go where read_target and write_target say
Follows(mmu, SIZE, addr, target, wtarget, val) ==
  /\ Mmu_read(mmu, SIZE, addr) =
       CASE target[1] = "Bios" -> read_as(SIZE, bios, target[2])
         [] target[1] = "Ram"  -> read_as(SIZE, mmu.ram, target[2])
         [] target[1] = "Exp1" -> \hFF
         [] OTHER -> 0
  /\ Mmu_write(mmu, SIZE, addr, val) =
       IF wtarget[1] = "Ram"
       THEN [mmu EXCEPT !.ram = write_as(SIZE, @, wtarget[2], val)]
       ELSE mmu

\* C23: for every address A below 0x20000000 and every width, a read or a
\* write at A, at A | 0x80000000 and at A | 0xA0000000 goes to the same
\* window at the same offset (and so reads and stores the same bytes).
C23_SegmentMirroring ==
  \A A \in Mirrored : \A X \in Aliases(A) :
    /\ read_target(X) = read_target(A)
    /\ write_target(X) = write_target(A)
    /\ \A SIZE \in {1, 2, 4} : \A Y \in {A, X} :
         aligned(SIZE, A) =>
           Follows(cpu.mmu, SIZE, Y, read_target(Y), write_target(Y), U32(\h1234, \h5678))

\* a store through one segment has been read back through another, from RAM
C23_Witness ==
  \E n \in Ops :
    /\ n < Len(hist) /\ Executed(n) /\ Executed(n + 1)
    /\ IsStore(hist[n].i) /\ IsMemoryLoad(hist[n + 1].i)
    /\ Shr(Address(n), 29) = 5 /\ Shr(Address(n + 1), 29) = 4
    /\ write_target(Address(n)) = << "Ram", \h1070 >>
    /\ read_target(Address(n + 1)) = << "Ram", \h1070 >>
    /\ opcode(hist[n].i) = 43 /\ opcode(hist[n + 1].i) = 35
    /\ hist[n].seen[rt(hist[n].i)] = U32(\h89AB, \hCDEF)
    /\ n + 2 <= Len(hist)
    /\ hist[n + 2].op = "step" /\ hist[n + 2].seen[5] = U32(\h89AB, \hCDEF)

(***************************************************************************)
(* C24  RAM round trip                                                     *)
(***************************************************************************)
\* X mod 2^(8 * SIZE)
Truncated(SIZE, X) ==
  CASE SIZE = 1 -> Lo(X) % 256
    [] SIZE = 2 -> Lo(X)
    [] SIZE = 4 -> X

\* byte k of X, the least significant being byte 0
ByteOf(X, k) ==
  CASE k = 0 -> Lo(X) % 256
    [] k = 1 -> Lo(X) \div 256
    [] k = 2 -> Hi(X) % 256
    [] k = 3 -> Hi(X) \div 256

\* every RAM byte outside offset .. offset + SIZE - 1 is in `after` what it
\* was in `before`
Untouched(before, after, offset, SIZE) ==
  /\ before.fill = after.fill
  /\ \A o \in ((DOMAIN before.at) \cup (DOMAIN after.at) \cup {offset - 1, offset + SIZE})
                \ (offset..(offset + SIZE - 1)) :
       (o >= 0 /\ o < RAM.length) => read8(before, o) = read8(after, o)

\* Mmu::write of X at a RAM address and what Mmu::read then returns
WritesThenReads(mmu, SIZE, addr, X, written) ==
  /\ Mmu_read(written, SIZE, addr) = Truncated(SIZE, X)
  /\ Untouched(mmu.ram, written.ram, write_target(addr)[2], SIZE)
  /\ SIZE = 4 => \A k \in 0..3 : Mmu_read(written, 1, wrapping_add(addr, k)) = ByteOf(X, k)

\* the values written: the register of the latest store and three patterns
Written(n) ==
  { hist[n].seen[rt(hist[n].i)], 0, U32(\h89AB, \hCDEF), U32(\hCACA, \hCACA) }

\* C24: in every state the program reaches by a write to RAM, a write of X
\* of 1, 2 or 4 bytes at the (aligned) address just written, followed by a
\* read of the same width there, returns X mod 2^w zero-extended and changes
\* no byte outside the written ones; after a 4-byte write the byte reads at
\* a, a+1, a+2, a+3 return X's bytes from the least significant up; and the
\* store instruction's own write is that write.
C24_RamRoundTrip ==
  (hist # << >> /\ Executed(Len(hist))) =>
    \A k \in 1..Len(hist[Len(hist)].bus) :
      LET access == hist[Len(hist)].bus[k]
      IN  (access[1] = "write" /\ write_target(access[3])[1] = "Ram") =>
            /\ \A SIZE \in {1, 2, 4} : \A X \in Written(Len(hist)) :
                 aligned(SIZE, access[3]) =>
                   WritesThenReads(hist[Len(hist)].pre.mmu, SIZE, access[3], X,
                     Mmu_write(hist[Len(hist)].pre.mmu, SIZE, access[3], X))
            /\ opcode(hist[Len(hist)].i) \in {40, 41, 43} =>
                 cpu.mmu = Mmu_write(hist[Len(hist)].pre.mmu, access[2], access[3],
                                     hist[Len(hist)].seen[rt(hist[Len(hist)].i)])

\* SW has put 0x89ABCDEF over four 0xCA bytes of RAM: the bytes read EF, CD,
\* AB, 89 and the bytes on either side are still 0xCA
C24_Witness ==
  /\ hist # << >> /\ Executed(Len(hist))
  /\ opcode(hist[Len(hist)].i) = 43
  /\ hist[Len(hist)].bus = << << "read", 4, hist[Len(hist)].pre.pc >>,
                              << "write", 4, U32(\hA000, \h1070) >> >>
  /\ hist[Len(hist)].seen[rt(hist[Len(hist)].i)] = U32(\h89AB, \hCDEF)
  /\ Mmu_read(hist[Len(hist)].pre.mmu, 4, \h1070) = U32(\hCACA, \hCACA)
  /\ << Mmu_read(cpu.mmu, 1, \h1070), Mmu_read(cpu.mmu, 1, \h1071),
        Mmu_read(cpu.mmu, 1, \h1072), Mmu_read(cpu.mmu, 1, \h1073) >>
       = << \hEF, \hCD, \hAB, \h89 >>
  /\ Mmu_read(cpu.mmu, 1, \h106F) = \hCA /\ Mmu_read(cpu.mmu, 1, \h1074) = \hCA

(***************************************************************************)
(* C25  Only RAM is writable                                               *)
(***************************************************************************)
\* the masked address lies in the RAM window, the BIOS window, EXP1
InRam(addr) == ULt(mask_region(addr), U32(\h0020, 0))

InBios(addr) ==
  ULe(U32(\h1FC0, 0), mask_region(addr)) /\ ULt(mask_region(addr), U32(\h1FC8, 0))

InExp1(addr) ==
  ULe(U32(\h1F00, 0), mask_region(addr)) /\ ULt(mask_region(addr), U32(\h1F80, 0))

\* what a read outside RAM and the BIOS returns
Stubbed(mmu, SIZE, addr) ==
  Mmu_read(mmu, SIZE, addr) = (IF InExp1(addr) THEN \hFF ELSE 0)

\* the boundaries through every segment, and addresses no segment maps
Probes ==
  Boundaries \cup UNION { Aliases(A) : A \in Boundaries }
  \cup { U32(\h2000, 0), U32(\h7FFF, \hFFFC), U32(\hC000, 0),
         CACHE_CTRL.start, U32(\hFFFF, \hFFFC) }

\* the latest step's accesses: a write outside RAM leaves the Mmu as it
\* was, whatever the value; a read outside RAM and the BIOS returns 0, or
\* 0xFF in EXP1; a step that made no write to RAM leaves the Mmu as it was;
\* and after a load from outside RAM and the BIOS the same holds at every
\* probe address
Accesses(n) ==
  /\ \A k \in 1..Len(hist[n].bus) :
       LET access == hist[n].bus[k]
       IN  /\ (access[1] = "write" /\ ~InRam(access[3])) =>
                \A SIZE \in {1, 2, 4} : \A X \in Written(n) :
                  aligned(SIZE, access[3]) =>
                    Mmu_write(hist[n].pre.mmu, SIZE, access[3], X) = hist[n].pre.mmu
           /\ (access[1] = "read" /\ ~InRam(access[3]) /\ ~InBios(access[3])) =>
                /\ \A SIZE \in {1, 2, 4} :
                     aligned(SIZE, access[3]) => Stubbed(hist[n].pre.mmu, SIZE, access[3])
                /\ k > 1 =>
                     \A P \in Probes : \A SIZE \in {1, 2, 4} :
                       /\ (~InRam(P) /\ ~InBios(P)) => Stubbed(hist[n].pre.mmu, SIZE, P)
                       /\ ~InRam(P) => Mmu_write(hist[n].pre.mmu, SIZE, P, U32(\h89AB, \hCDEF))
                                         = hist[n].pre.mmu
  /\ (\A k \in 1..Len(hist[n].bus) : hist[n].bus[k][1] = "write" => ~InRam(hist[n].bus[k][3]))
       => Post(n).mmu = hist[n].pre.mmu

OnlyRam == (hist # << >> /\ hist[Len(hist)].op = "step") => Accesses(Len(hist))

\* C25: no operation changes the BIOS image; an MMU write outside the RAM
\* window changes nothing; an MMU read changes nothing and returns 0 outside
\* RAM and the BIOS, except 0xFF in EXP1.
C25_OnlyRamWritable == [][bios' = bios]_vars /\ []OnlyRam

\* SW to the BIOS window and LW back: the word read is the BIOS word, not
\* the value stored, and RAM is as it was
C25_Witness ==
  /\ Len(hist) >= 3
  /\ Executed(Len(hist) - 2) /\ opcode(hist[Len(hist) - 2].i) = 43
  /\ InBios(Address(Len(hist) - 2))
  /\ hist[Len(hist) - 2].seen[3] = U32(\h89AB, \hCDEF)
  /\ Executed(Len(hist) - 1) /\ opcode(hist[Len(hist) - 1].i) = 35
  /\ Address(Len(hist) - 1) = Address(Len(hist) - 2)
  /\ hist[Len(hist)].op = "step"
  /\ hist[Len(hist)].seen[5] = read32(bios, \h1070)
  /\ hist[Len(hist)].seen[5] # U32(\h89AB, \hCDEF)
  /\ cpu.mmu = Mmu_new

(***************************************************************************)
(* C26  Unimplemented encodings                                            *)
(***************************************************************************)
\* the primary opcodes and the SPECIAL functs that have an instruction
ImplementedOpcodes ==
  (0..16) \cup {32, 33, 34, 35, 36, 37, 38} \cup {40, 41, 42, 43, 46}

ImplementedFuncts ==
  {0, 2, 3, 4, 6, 7, 8, 9, 12, 13} \cup (16..19) \cup (24..27) \cup (32..39) \cup {42, 43}

\* COPz, LWCz, SWCz for z = 1, 3; for z = 2; and LWC0, SWC0
IsCop1Or3(i) == opcode(i) \in {17, 19, 49, 51, 57, 59}

IsLwc0OrSwc0(i) == opcode(i) \in {48, 56}

IsUnimplemented(i) ==
  \/ opcode(i) \notin ImplementedOpcodes
  \/ opcode(i) = 0 /\ funct(i) \notin ImplementedFuncts

\* step n entered the exception `code` and its word changed no general
\* register, HI, LO or RAM byte and queued no load
RaisesOnly(n, code) ==
  /\ hist[n].fault = NoFault
  /\ hist[n].raised = << code >>
  /\ BitAnd(Post(n).cop0.cause, \h7C) = code * 4
  /\ Post(n).pc = Vector(hist[n].pre.cop0.sr)
  /\ Post(n).regs = hist[n].seen
  /\ Post(n).hi = hist[n].pre.hi /\ Post(n).lo = hist[n].pre.lo
  /\ Post(n).ld_delay_slots = << >>
  /\ Post(n).mmu = hist[n].pre.mmu

\* C26 as stated: every word that is no coprocessor-1 or -3 access and whose
\* primary opcode, or SPECIAL funct, is not implemented raises IllegalInstr;
\* every coprocessor-1 or -3 access raises CopError; neither changes a
\* general register, HI, LO, a load-delay entry or RAM.
C26_DispatchAsStated ==
  \A n \in Ops : Ran(n) =>
    /\ (IsUnimplemented(hist[n].i) /\ ~IsCop1Or3(hist[n].i)) => RaisesOnly(n, IllegalInstr)
    /\ IsCop1Or3(hist[n].i) => RaisesOnly(n, CopError)

\* C26: the same, with LWC0 and SWC0 raising CopError as the coprocessor-1
\* and -3 accesses do, and the coprocessor-2 words (which abort) left out.
C26_Dispatch ==
  \A n \in Ops : Ran(n) =>
    /\ ( /\ IsUnimplemented(hist[n].i) /\ ~IsCop1Or3(hist[n].i)
         /\ ~IsLwc0OrSwc0(hist[n].i) /\ ~IsCop2(hist[n].i) ) => RaisesOnly(n, IllegalInstr)
    /\ (IsCop1Or3(hist[n].i) \/ IsLwc0OrSwc0(hist[n].i)) => RaisesOnly(n, CopError)

\* a word of the unimplemented opcode 63 has been run while a load into r5
\* was pending: the load is committed and IllegalInstr entered
C26_Witness ==
  \E n \in Ops :
    /\ Ran(n) /\ hist[n].pre.ld_delay_slots # << >>
    /\ hist[n].seen[5] # hist[n].pre.regs[5]
    /\ opcode(hist[n].i) = 63 /\ hist[n].raised = << IllegalInstr >>
    /\ Post(n).regs[5] = hist[n].seen[5]
    /\ Post(n).pc = U32(\h8000, \h0080)

(***************************************************************************)
(* C27  Sideload hand-off                                                  *)
(***************************************************************************)
\* operation n was the overlay of sideload_exe, and it returned
HandedOff(n) == hist[n].op = "sideload" /\ hist[n].fault = NoFault

\* the executables whose overlay would leave the state Post(n)
Overlaid(n) ==
  { exe \in Exes : CpuOf(overlay(Machine(hist[n].pre), exe)) = Post(n) }

\* the payload of exe lies in RAM at its load address
PayloadInRam(ram, exe) ==
  \A k \in 0..(read32(exe.data, 28) - 1) :
    read8(ram, BitAnd(read32(exe.data, 24), U32(\h001F, \hFFFF)) + k)
      = read8(exe.data, 2048 + k)

\* C27: an overlay happens only at pc = 0x80030000; it leaves the payload in
\* RAM at load & 0x001FFFFF, pc at the header's initial pc and next_pc at
\* pc + 4; and the first instruction executed at the initial pc sees the
\* header's GP in r28 and, when the header's SP is not zero, SP in r29 and
\* r30, whatever the BIOS ran last.
C27_SideloadHandoff ==
  \A n \in Ops : HandedOff(n) =>
    /\ hist[n].pre.pc = U32(\h8003, 0)
    /\ \A m \in 1..(n - 1) : hist[m].op = "step"
    /\ Overlaid(n) # {}
    /\ \A exe \in Overlaid(n) :
         /\ PayloadInRam(Post(n).mmu.ram, exe)
         /\ Post(n).pc = read32(exe.data, 16)
         /\ Post(n).next_pc = wrapping_add(Post(n).pc, 4)
         /\ (n < Len(hist) /\ Executed(n + 1)) =>
              /\ hist[n + 1].seen[28] = read32(exe.data, 20)
              /\ read32(exe.data, 48) # 0 =>
                   /\ hist[n + 1].seen[29] = read32(exe.data, 48)
                   /\ hist[n + 1].seen[30] = read32(exe.data, 48)
              /\ read32(exe.data, 48) = 0 =>
                   /\ hist[n + 1].seen[29] = hist[n].pre.regs[29]
                   /\ hist[n + 1].seen[30] = hist[n].pre.regs[30]

(***************************************************************************)
(* C28  Load-delay queue bound                                             *)
(***************************************************************************)
\* the register file once the oldest entry of `queue` is committed
Committed(regs, queue) ==
  IF queue = << >> THEN regs
  ELSE [r \in 0..31 |-> IF r = 0 THEN 0
                        ELSE IF r = Head(queue)[1] THEN Head(queue)[2]
                        ELSE regs[r]]

\* the entries of `queue` but the oldest
Rest(queue) == IF queue = << >> THEN << >> ELSE Tail(queue)

\* C28: between steps the load-delay queue holds at most one entry; each
\* step that returns has removed exactly the oldest entry, if there was one,
\* and committed it before its instruction read the registers; and its
\* instruction has added at most one entry behind the ones left.
C28_LoadDelayQueue ==
  /\ Len(cpu.ld_delay_slots) <= 1
  /\ \A n \in Ops :
       /\ Len(hist[n].pre.ld_delay_slots) <= 1
       /\ Stepped(n) =>
            /\ hist[n].seen = Committed(hist[n].pre.regs, hist[n].pre.ld_delay_slots)
            /\ Len(Post(n).ld_delay_slots) \in
                 { Len(Rest(hist[n].pre.ld_delay_slots)),
                   Len(Rest(hist[n].pre.ld_delay_slots)) + 1 }
            /\ \A k \in 1..Len(Rest(hist[n].pre.ld_delay_slots)) :
                 Post(n).ld_delay_slots[k] = Rest(hist[n].pre.ld_delay_slots)[k]
            /\ ~hist[n].fetched => Post(n).ld_delay_slots = Rest(hist[n].pre.ld_delay_slots)

\* a load ran while another load's write-back was pending: the step
\* committed the older one and left only its own in the queue
C28_Witness ==
  \E n \in Ops :
    /\ Executed(n) /\ IsLoad(hist[n].i)
    /\ Len(hist[n].pre.ld_delay_slots) = 1
    /\ hist[n].pre.ld_delay_slots[1][1] # 0
    /\ hist[n].seen # hist[n].pre.regs
    /\ Len(Post(n).ld_delay_slots) = 1
    /\ Post(n).ld_delay_slots # hist[n].pre.ld_delay_slots

(***************************************************************************)
(* C29  CAUSE branch-delay bit                                             *)
(***************************************************************************)
\* CAUSE bit 31 after step n
BranchDelayBit(n) == Post(n).cop0.cause < 0

\* C29: after every exception entry CAUSE bit 31 is set exactly when the
\* step that raised it was entered with in_delay_slot set; in particular an
\* exception raised outside a delay slot leaves bit 31 clear, also after an
\* earlier exception raised in a delay slot.
C29_CauseBranchDelay ==
  \A n \in Ops : Raised(n) => (BranchDelayBit(n) <=> hist[n].pre.in_delay_slot)

(***************************************************************************)
(* C30  Branch-delay flag lifetime                                         *)
(***************************************************************************)
\* operation n is a call of step()
IsStep(n) == hist[n].op = "step"

\* the calls of step() before operation n
Before(n) == { m \in 1..(n - 1) : IsStep(m) }

\* step m and the later step n are consecutive calls of step()
Consecutive(m, n) == m \in Before(n) /\ \A j \in Before(n) : j <= m

\* C30: a step is entered with in_delay_slot set only if the step before it
\* executed a branch or jump; no two consecutive steps are both entered with
\* it set; and a step that returns early for a misaligned curr_pc is never
\* entered with it set.
C30_DelayFlagLifetime ==
  \A n \in Ops : (IsStep(n) /\ hist[n].pre.in_delay_slot) =>
    /\ \E m \in Before(n) :
         Consecutive(m, n) /\ Executed(m) /\ IsBranchOrJump(hist[m].i)
    /\ \A m \in Before(n) : Consecutive(m, n) => ~hist[m].pre.in_delay_slot
    /\ hist[n].fetched

(***************************************************************************)
(* C31  Unaligned word load idiom                                          *)
(***************************************************************************)
\* steps n and n+1 ran LWL r,a+3 and LWR r,a on RAM, and step n+2 has
\* committed the second load
IdiomCommitted(n) ==
  /\ n + 2 <= Len(hist)
  /\ Executed(n) /\ opcode(hist[n].i) = 34
  /\ Executed(n + 1) /\ opcode(hist[n + 1].i) = 38
  /\ rt(hist[n + 1].i) = rt(hist[n].i)
  /\ Address(n) = wrapping_add(Address(n + 1), 3)
  /\ read_target(BitAnd(Address(n), BitNot(3)))[1] = "Ram"
  /\ read_target(BitAnd(Address(n + 1), BitNot(3)))[1] = "Ram"
  /\ hist[n + 2].op = "step"

\* the little-endian word formed by the four RAM bytes from address a on
WordAt(mmu, a) ==
  U32(Mmu_read(mmu, 1, wrapping_add(a, 2)) + 256 * Mmu_read(mmu, 1, wrapping_add(a, 3)),
      Mmu_read(mmu, 1, a) + 256 * Mmu_read(mmu, 1, wrapping_add(a, 1)))

\* C31: once LWL r,a+3; LWR r,a have committed, r holds the little-endian
\* word formed by the RAM bytes at a, a+1, a+2, a+3, for every alignment of
\* a and whatever r held.
C31_UnalignedLoad ==
  \A n \in Ops : IdiomCommitted(n) =>
    hist[n + 2].seen[rt(hist[n].i)] = WordAt(hist[n].pre.mmu, Address(n + 1))

(***************************************************************************)
(* C32  LWL/LWR merge table                                                *)
(***************************************************************************)
\* C32: every LWL and LWR raises nothing and enqueues, for its rt,
\* (reg & M) | (w << S), where reg is the register operand, w the aligned
\* word at addr & ~3 and (M, S) the row of addr & 3: for LWL (0x00FFFFFF, 24),
\* (0x0000FFFF, 16), (0x000000FF, 8), (0, 0); for LWR (0, 0), (0xFF000000, 8),
\* (0xFFFF0000, 16), (0xFFFFFF00, 24).
C32_MergeTable ==
  \A n \in Ops : (Ran(n) /\ opcode(hist[n].i) \in {34, 38}) =>
    /\ hist[n].fault = NoFault
    /\ hist[n].raised = << >>
    /\ hist[n].bus = << << "read", 4, hist[n].pre.pc >>,
                        << "read", 4, BitAnd(Address(n), BitNot(3)) >> >>
    /\ Post(n).ld_delay_slots =
         << << rt(hist[n].i), Merged(n, hist[n].seen[rt(hist[n].i)]) >> >>

\* an LWL at addr & 3 = 0 and then an LWR at addr & 3 = 1 have run, and the
\* LWR has queued a value that is neither its operand nor the aligned word
C32_Witness ==
  \E n \in Ops :
    /\ n > 1 /\ Executed(n - 1) /\ opcode(hist[n - 1].i) = 34 /\ Address(n - 1) % 4 = 0
    /\ Executed(n) /\ opcode(hist[n].i) = 38 /\ Address(n) % 4 = 1
    /\ Post(n).ld_delay_slots # << >>
    /\ Post(n).ld_delay_slots[1][2]
         \notin { hist[n].seen[rt(hist[n].i)],
                  Mmu_read(hist[n].pre.mmu, 4, BitAnd(Address(n), BitNot(3))) }
    /\ BitAnd(hist[n].seen[rt(hist[n].i)], U32(\hFF00, 0)) # 0

(***************************************************************************)
(* C33  JALR jumps to the old rs                                           *)
(***************************************************************************)
\* the value rs held when the JALR of step n was entered
OldRs(n) == hist[n].seen[rs(hist[n].i)]

\* C33: a JALR fetched from A and entered with next_pc = pc + 4, rd and rs
\* naming the same register included, sets next_pc to the value rs held
\* before it ran and, when its delay slot raises no exception, the step
\* after the delay slot, at A + 4, is entered with pc at that value; rd,
\* when not r0, receives A + 8.
C33_JalrOldRs ==
  \A n \in Ops :
    (Executed(n) /\ Sequential(n) /\ IsJalr(hist[n].i)) =>
      /\ Post(n).next_pc = OldRs(n)
      /\ ( /\ n + 2 <= Len(hist)
           /\ Stepped(n + 1) /\ hist[n + 1].raised = << >>
           /\ hist[n + 2].op = "step" )
         => /\ hist[n + 1].pre.pc = wrapping_add(hist[n].pre.pc, 4)
            /\ hist[n + 2].pre.pc = OldRs(n)
      /\ rd(hist[n].i) # 0 => Links(n, rd(hist[n].i))

(***************************************************************************)
(* C34  Frontend audio consistency                                         *)
(***************************************************************************)
\* main is in its loop and the ROM loaded last has audio enabled
AudioLoaded == ctx.running /\ ctx.rom_path # "" /\ audio_spec(ctx.emu)

\* C34: once a ROM with audio enabled is loaded, the audio device is
\* playing whenever the emulator is neither paused nor muted, and is not
\* playing whenever the emulator is paused.
C34_AudioConsistency ==
  AudioLoaded =>
    /\ (~ctx.is_paused /\ ~ctx.is_muted) => ctx.audio_dev.status = "Playing"
    /\ ctx.is_paused => ctx.audio_dev.status # "Playing"

====
